---- MODULE Spec2Model ----
(***************************************************************************)
(* Browser session orchestration service: the session registry             *)
(* (session.Manager), its durable index (storage.SessionRepository over    *)
(* Redis), the HTTP handlers' error mapping, and the protocol client       *)
(* (cdp.Client).                                                           *)
(*                                                                         *)
(* Session ids are random 16-byte values in the code; here a counter hands *)
(* out fresh ones.  Time is counted in ticks, TicksPerSecond to a second,  *)
(* so that the RFC3339 encoding of a timestamp (whole seconds) loses what  *)
(* it loses in the code.                                                   *)
(***************************************************************************)
EXTENDS Integers, Sequences, FiniteSets, TLC

----------------------------------------------------------------------------
(* Bounds of the model *)

NumCallers == 2
MaxIds == 2
MaxTime == 1
TicksPerSecond == 2
MaxPages == 1
MaxClients == 2
MaxRequests == 4
MaxAcquire == 3
MaxBusy == 1
MaxPool == 2
MaxCommands == 2
SessionTTL == 1        \* the TTL of the durable index's keys, in ticks

(* the callers (goroutines serving requests) and the values they pass *)
Callers == 1..NumCallers
Agents == {"a1", "a2"}
Names == {"task"}
Ports == {9222}
Targets == {"t1", "t2"}

(* Program constants *)

MaxSessionsPerAgent == 10
MaxTotalSessions == 100
DefaultSessionNamePrefix == "session"
MinPortRange == 9222
MaxPortRange == 9272

(* the ports the pool's workers can get within the bounds *)
WorkerPorts == (MaxPortRange - MaxPool * (MaxBusy + 1))..(MaxPortRange - 1)

----------------------------------------------------------------------------
(* Go error values: an error is the chain of messages from the outermost   *)
(* wrapper to the innermost error; nil is the empty chain.  Two errors are *)
(* == in Go only when they are the same value, i.e. the same chain.        *)

NoError == <<>>
ErrSessionLimitReached == <<"agent session limit reached">>
ErrSessionNameConflict == <<"session name already exists">>
Wrap(msg, err) == <<msg>> \o err

(* errors.Is(err, target): target is the error or one it wraps *)
ErrorsIs(err, target) ==
    \E k \in 0..Len(err) : SubSeq(err, k + 1, Len(err)) = target /\ target # NoError

----------------------------------------------------------------------------
(* Small helpers on functions and sequences *)

Range(s) == {s[i] : i \in DOMAIN s}
Put(f, k, v) == [x \in (DOMAIN f) \cup {k} |-> IF x = k THEN v ELSE f[x]]
Drop(f, k) == [x \in (DOMAIN f) \ {k} |-> f[x]]
EmptyMap == [x \in {} |-> 0]

----------------------------------------------------------------------------
(* Time and its encodings *)

(* time.Time.Format(time.RFC3339): whole seconds, the fraction is dropped *)
FormatRFC3339(t) == t \div TicksPerSecond
(* time.Parse(time.RFC3339, s) *)
ParseRFC3339(s) == s * TicksPerSecond
(* time.Time.Format("2006-01-02"): the day of the timestamp *)
FormatDate(t) == ToString(t \div (TicksPerSecond * 86400))

(* strconv.Atoi of the decimal string redis holds for process_port *)
Atoi(s) == IF \E p \in Ports \cup WorkerPorts : ToString(p) = s
           THEN CHOOSE p \in Ports \cup WorkerPorts : ToString(p) = s
           ELSE 0

(* strconv.Itoa *)
Itoa(n) == ToString(n)

(* the first 8 characters of the id body, after "sess_" *)
ShortID(id) == ToString(id)

generateSessionName(id, createdAt) ==
    DefaultSessionNamePrefix \o "-" \o FormatDate(createdAt) \o "-" \o ShortID(id)

----------------------------------------------------------------------------
(* The durable index: redis keys                                           *)
(*   session      session:<id>               hash  field -> value          *)
(*   agentSessions agent:<a>:sessions        set of session ids            *)
(*   sessionNames agent:<a>:session_names    hash  name -> session id      *)
(*   pages        session:<id>:pages         JSON list of page states      *)
(*   active       active:sessions            set of session ids            *)

EmptyRedis ==
    [session |-> EmptyMap,
     agentSessions |-> [a \in Agents |-> {}],
     sessionNames |-> [a \in Agents |-> EmptyMap],
     pages |-> EmptyMap,
     active |-> {}]

(* a Go map read: the zero value "" for a key that is absent *)
HGet(data, field) == IF field \in DOMAIN data THEN data[field] ELSE ""

HGetAll(r, id) == IF id \in DOMAIN r.session THEN r.session[id] ELSE EmptyMap

CheckSessionNameExists(r, agentID, sessionName) ==
    sessionName \in DOMAIN r.sessionNames[agentID]

CountAgentSessions(r, agentID) == Cardinality(r.agentSessions[agentID])

(* ReserveSessionName: [redis, err]; writeOk is whether the HSET succeeds *)
ReserveSessionName(r, agentID, sessionName, sessionID, writeOk) ==
    IF CheckSessionNameExists(r, agentID, sessionName)
    THEN [redis |-> r, err |-> <<"session name already exists for agent">>]
    ELSE IF ~writeOk
    THEN [redis |-> r, err |-> <<"failed to reserve session name">>]
    ELSE [redis |-> [r EXCEPT !.sessionNames[agentID] =
                                  Put(@, sessionName, sessionID)],
          err |-> NoError]

ReleaseSessionName(r, agentID, sessionName) ==
    IF sessionName = "" \/ agentID = ""
    THEN r
    ELSE [r EXCEPT !.sessionNames[agentID] = Drop(@, sessionName)]

GetSessionByName(r, agentID, sessionName) ==
    IF sessionName \in DOMAIN r.sessionNames[agentID]
    THEN [id |-> r.sessionNames[agentID][sessionName], err |-> NoError]
    ELSE [id |-> 0, err |-> <<"session not found with name">>]

(* the hash fields SaveSession writes for a SessionState *)
SessionFields(state) ==
    [session_id |-> state.SessionID,
     agent_id |-> state.AgentID,
     process_port |-> ToString(state.ProcessPort),
     context_id |-> state.ContextID,
     created_at |-> FormatRFC3339(state.CreatedAt),
     last_activity |-> FormatRFC3339(state.LastActivity),
     status |-> state.Status]

(* SaveSession: [redis, err, reserveErr].  fail names the redis write that *)
(* fails: "none", "hset" (the session hash) or "reserve" (the name HSET).  *)
SaveSession(r, state, fail) ==
    IF fail = "hset"
    THEN [redis |-> r, err |-> <<"failed to save session">>, reserveErr |-> NoError]
    ELSE
      LET r1 == [r EXCEPT !.session = Put(@, state.SessionID, SessionFields(state)),
                          !.active = @ \cup {state.SessionID}]
          r2 == IF state.AgentID # ""
                THEN [r1 EXCEPT !.agentSessions[state.AgentID] = @ \cup {state.SessionID}]
                ELSE r1
          res == IF state.AgentID # ""
                 THEN ReserveSessionName(r2, state.AgentID, state.SessionName,
                                         state.SessionID, fail # "reserve")
                 ELSE [redis |-> r2, err |-> NoError]
          r3 == res.redis
          r4 == IF Len(state.Pages) > 0
                THEN [r3 EXCEPT !.pages = Put(@, state.SessionID, state.Pages)]
                ELSE r3
      IN [redis |-> r4, err |-> NoError, reserveErr |-> res.err]

(* GetPages: the stored list, or none *)
GetPages(r, id) == IF id \in DOMAIN r.pages THEN r.pages[id] ELSE <<>>

(* GetSession: [state, err]; the SessionState parsed from the hash.  A     *)
(* field the hash lacks reads as the zero value; SessionName is not among  *)
(* the fields read                                                         *)
GetSession(r, sessionID) ==
    LET data == HGetAll(r, sessionID)
        has(f) == f \in DOMAIN data
    IN
    IF DOMAIN data = {}
    THEN [state |-> [ProcessPort |-> 0], err |-> <<"session not found">>]
    ELSE [state |-> [SessionID |-> IF has("session_id") THEN data["session_id"] ELSE 0,
                     SessionName |-> "",
                     AgentID |-> HGet(data, "agent_id"),
                     ProcessPort |-> Atoi(HGet(data, "process_port")),
                     ContextID |-> IF has("context_id") THEN data["context_id"] ELSE 0,
                     CreatedAt |-> IF has("created_at")
                                   THEN ParseRFC3339(data["created_at"]) ELSE 0,
                     LastActivity |-> IF has("last_activity")
                                      THEN ParseRFC3339(data["last_activity"]) ELSE 0,
                     Status |-> HGet(data, "status"),
                     Pages |-> GetPages(r, sessionID)],
          err |-> NoError]

(* UpdateLastActivity: HSET of one field; on a key that has expired or was *)
(* deleted HSET creates the hash anew with that field alone                *)
UpdateLastActivity(r, sessionID, t) ==
    [r EXCEPT !.session =
        Put(@, sessionID,
            Put(HGetAll(r, sessionID), "last_activity", FormatRFC3339(t)))]

DeleteSession(r, sessionID) ==
    LET data == HGetAll(r, sessionID)
        agentID == HGet(data, "agent_id")
        sessionName == HGet(data, "session_name")
        r1 == IF DOMAIN data # {} /\ agentID # "" /\ sessionName # ""
              THEN ReleaseSessionName(r, agentID, sessionName)
              ELSE r
        r2 == IF DOMAIN data # {} /\ agentID # ""
              THEN [r1 EXCEPT !.agentSessions[agentID] = @ \ {sessionID}]
              ELSE r1
    IN [r2 EXCEPT !.session = Drop(@, sessionID),
                  !.pages = Drop(@, sessionID),
                  !.active = @ \ {sessionID}]

----------------------------------------------------------------------------
VARIABLES
    sessions,     \* Manager.sessions: session id -> Session
    cdpClients,   \* Manager.cdpClients: port -> client
    clientState,  \* every cdp.Client made so far: client -> "open" | "closed"
    repo,         \* Manager.repo # nil: a durable index is configured
    redis,        \* the durable index
    nextId,       \* the next fresh session id
    nextCtx,      \* the next fresh browser context handle
    nextPage,     \* the next fresh target id
    now,          \* the clock, in ticks
    pc,           \* per caller: where it is in its request
    loc,          \* per caller: the locals of the request in progress
    last,         \* the outcome of the request that returned last
    created,      \* history: session id -> the Session as created
    destroyed,    \* history: ids whose DestroySession succeeded
    navPages,     \* history: session id -> page ids navigate returned
    requestID,    \* cdp.Client.requestID
    pending,      \* cdp.Client.pending: the request ids awaiting a response
    targetSessions, \* cdp.Client.targetSessions: target id -> attachment label
    ctxDone,      \* cdp.Client.ctx is cancelled (Close ran)
    conn,         \* frames written to the socket that the browser has not answered
    chans,        \* the response channel made for each request id
    cpc,          \* per caller: where it is in SendCommandToTarget
    cloc,         \* per caller: the locals of its call
    nextLabel,    \* the label the browser gives to the next attachment
    attachSent,   \* history: target id -> Target.attachToTarget frames written
    attachFailed, \* history: target id -> attach calls that returned an error
    drained,      \* Close has closed and dropped the pending channels
    allocs,       \* history: the request ids in the order they were allocated
    freePortsStack, \* browser.freePortsStack: the free ports, the top last
    freePortsSet, \* browser.freePortsSet: the ports flagged free
    held,         \* history: the ports GetFreePort returned that were not given back
    acquired,     \* history: how many times GetFreePort was called
    processes,    \* ProcessPool.processes: the workers, in the order they were started
    dirs,         \* the data directories that exist, each named by its worker's port
    osProcs,      \* the browser processes spawned: port -> "running" | "exited" | "killed"
    poolState,    \* "none" before NewProcessPool, "up", "failed" (construction failed), "down" after Shutdown
    sweeping,     \* the cleanup worker is inside cleanupExpiredSessions
    expiredIDs,   \* cleanupExpiredSessions: the ids collected that are still to be destroyed
    scanned,      \* history: the ids the last sweep collected
    cancelled,    \* Manager.ctx is cancelled (Close called m.cancel)
    exited,       \* the cleanup worker's goroutine has returned
    mu,           \* Manager.mu: "free", or "sweeper" while the worker's DestroySession holds it
    closeReturned, \* history: Manager.Close has returned
    cmu,          \* cdp.Client.mu held across a call: 0, or the caller whose AttachToTarget holds it
    commands,     \* history: how many protocol commands the page operations sent
    opLoc,        \* per caller: the locals of the page operation in progress
    closed,       \* history: the page ids ClosePage closed
    expireAt,     \* redis: session id -> the time the key session:<id> expires at
    sweptTouched, \* history: the ids a sweep destroyed after they were touched
    closeErrs     \* history: the ids DestroySession removed although a CloseTarget failed

mgrVars == <<sessions, cdpClients, clientState, repo, redis, nextId, nextCtx,
             nextPage, now, pc, loc, last, created, destroyed, navPages>>

cdpVars == <<requestID, pending, targetSessions, ctxDone, conn, chans, cpc, cloc,
             nextLabel, attachSent, attachFailed, drained, allocs>>

portVars == <<freePortsStack, freePortsSet, held, acquired>>

procVars == <<processes, dirs, osProcs, poolState>>

poolVars == <<portVars, procVars>>

workerVars == <<cancelled, exited, mu, closeReturned, cmu>>

sweepVars == <<sweeping, expiredIDs, scanned, workerVars>>

opVars == <<commands, opLoc>>

ghostVars == <<sweptTouched, closeErrs>>

histVars == <<closed, expireAt, ghostVars>>

vars == <<mgrVars, cdpVars, poolVars, sweepVars, opVars, histVars>>

NoOp == [op |-> "", id |-> 0, t |-> 0, page |-> 0, pages |-> <<>>]
NoLoc == [agent |-> "", name |-> "", port |-> 0, id |-> 0]
NoResp == [op |-> "none", status |-> 0, id |-> 0, note |-> "", client |-> ""]
NoCall == [target |-> "", id |-> 0, sessionID |-> 0]
EmptyChan == [state |-> "empty", id |-> 0, sessionID |-> 0, error |-> FALSE]

Init ==
    /\ sessions = EmptyMap
    /\ cdpClients = EmptyMap
    /\ clientState = EmptyMap
    /\ repo \in BOOLEAN
    /\ redis = EmptyRedis
    /\ nextId = 1
    /\ nextCtx = 1
    /\ nextPage = 1
    /\ now = 0
    /\ pc = [c \in Callers |-> "idle"]
    /\ loc = [c \in Callers |-> NoLoc]
    /\ last = NoResp
    /\ created = EmptyMap
    /\ destroyed = {}
    /\ navPages = EmptyMap
    /\ requestID = 0
    /\ pending = {}
    /\ targetSessions = EmptyMap
    /\ ctxDone = FALSE
    /\ conn = {}
    /\ chans = EmptyMap
    /\ cpc = [k \in Callers |-> "idle"]
    /\ cloc = [k \in Callers |-> NoCall]
    /\ nextLabel = 1
    /\ attachSent = [t \in Targets |-> 0]
    /\ attachFailed = [t \in Targets |-> 0]
    /\ drained = FALSE
    /\ allocs = <<>>
    /\ freePortsStack = [i \in 1..(MaxPortRange - MinPortRange) |-> Itoa(MinPortRange + i - 1)]
    /\ freePortsSet = {Itoa(i) : i \in MinPortRange..(MaxPortRange - 1)}
    /\ held = {}
    /\ acquired = 0
    /\ processes = <<>>
    /\ dirs = {}
    /\ osProcs = EmptyMap
    /\ poolState = "none"
    /\ sweeping = FALSE
    /\ expiredIDs = <<>>
    /\ scanned = {}
    /\ cancelled = FALSE
    /\ exited = FALSE
    /\ mu = "free"
    /\ closeReturned = FALSE
    /\ cmu = 0
    /\ commands = 0
    /\ opLoc = [c \in Callers |-> NoOp]
    /\ closed = {}
    /\ expireAt = EmptyMap
    /\ sweptTouched = {}
    /\ closeErrs = {}

Tick ==
    /\ now < MaxTime
    /\ now' = now + 1
    /\ UNCHANGED <<sessions, cdpClients, clientState, repo, redis, nextId, nextCtx,
                   nextPage, pc, loc, last, created, destroyed, navPages>>
    /\ UNCHANGED <<cdpVars, poolVars, sweepVars, opVars, histVars>>

----------------------------------------------------------------------------
(* Manager helpers *)

(* a client dialled on every call, cached or not *)
GetOrCreateCDPClientAlwaysNew(clients, cstate, port, connectOk) ==
    IF ~connectOk
    THEN [client |-> 0, cdpClients |-> clients, clientState |-> cstate,
          err |-> <<"failed to connect to CDP client">>]
    ELSE LET new == Cardinality(DOMAIN cstate) + 1 IN
         [client |-> new,
          cdpClients |-> Put(clients, port, new),
          clientState |-> Put(cstate, new, "open"),
          err |-> NoError]

(* GetOrCreateCDPClient: the client cached for the port, whatever its      *)
(* state, else a newly connected one; connectOk is whether endpoint        *)
(* discovery and the dial succeed                                          *)
GetOrCreateCDPClient(clients, cstate, port, connectOk) ==
    IF port \in DOMAIN clients
    THEN [client |-> clients[port], cdpClients |-> clients, clientState |-> cstate,
          err |-> NoError]
    ELSE IF ~connectOk
    THEN [client |-> 0, cdpClients |-> clients, clientState |-> cstate,
          err |-> <<"failed to connect to CDP client">>]
    ELSE LET new == Cardinality(DOMAIN cstate) + 1 IN
         [client |-> new,
          cdpClients |-> Put(clients, port, new),
          clientState |-> Put(cstate, new, "open"),
          err |-> NoError]

(* the SessionState persisted for a Session *)
sessionToState(s) ==
    [SessionID |-> s.ID,
     SessionName |-> s.Name,
     AgentID |-> s.AgentID,
     ProcessPort |-> s.ProcessPort,
     ContextID |-> s.ContextID,
     CreatedAt |-> s.CreatedAt,
     LastActivity |-> s.LastActivity,
     Status |-> s.Status,
     Pages |-> s.PageIDs]

(* checkSessionLimits: the error, or nil *)
checkSessionLimits(agentID) ==
    IF Cardinality(DOMAIN sessions) >= MaxTotalSessions
    THEN <<"global session limit reached">>
    ELSE IF repo /\ CountAgentSessions(redis, agentID) >= MaxSessionsPerAgent
    THEN Wrap("agent has sessions (max)", ErrSessionLimitReached)
    ELSE NoError

(* Handlers.CreateSession: the HTTP status written for the error that  *)
(* CreateSessionWithName returned                                          *)
CreateSessionStatus(err) ==
    IF err = NoError THEN 201
    ELSE IF err = ErrSessionNameConflict
    THEN 409
    ELSE IF err = ErrSessionLimitReached
    THEN 429
    ELSE 500

(* what the caller of POST /sessions gets: the status; note tells which    *)
(* error kind the manager returned (errors.Is) or what SaveSession logged  *)
CreateResp(err, id, note) ==
    [op |-> "create", status |-> CreateSessionStatus(err), id |-> id,
     note |-> IF ErrorsIs(err, ErrSessionLimitReached) THEN "agent limit"
              ELSE IF ErrorsIs(err, ErrSessionNameConflict) THEN "name conflict"
              ELSE note,
     client |-> ""]

----------------------------------------------------------------------------
(* POST /sessions: Handlers.CreateSession -> Manager.CreateSessionWithName *)

(* the handlers' loop over the pool's workers: the session count of the    *)
(* first worker on the port moves by d (IncrementSessionCount,             *)
(* DecrementSessionCount); no worker on the port, no change                *)
AddSessionCount(ps, port, d) ==
    [i \in DOMAIN ps |->
        IF ps[i].DebugPort = port /\ \A j \in 1..(i - 1) : ps[j].DebugPort # port
        THEN [ps[i] EXCEPT !.sessionCount = @ + d]
        ELSE ps[i]]

(* the limits checked after a browser context was created *)
CreateCheckLimitsAfterContext(c, agentID, sessionName, port) ==
    /\ pc[c] = "idle"
    /\ IF agentID = ""
       THEN /\ last' = [NoResp EXCEPT !.op = "create", !.status = 400]
            /\ UNCHANGED <<pc, loc, nextCtx>>
       ELSE LET err == checkSessionLimits(agentID) IN
            IF err # NoError
            THEN /\ last' = CreateResp(err, 0, "")
                 /\ nextCtx' = nextCtx + 1
                 /\ UNCHANGED <<pc, loc>>
            ELSE /\ pc' = [pc EXCEPT ![c] =
                             IF sessionName # "" /\ repo
                             THEN "create_name" ELSE "create_install"]
                 /\ loc' = [loc EXCEPT ![c] =
                             [agent |-> agentID, name |-> sessionName,
                              port |-> port, id |-> 0]]
                 /\ UNCHANGED <<last, nextCtx>>
    /\ UNCHANGED <<sessions, cdpClients, clientState, repo, redis, nextId,
                   nextPage, now, created, destroyed, navPages>>
    /\ UNCHANGED <<cdpVars, poolVars, sweepVars, opVars, histVars>>

(* the handler's validation, then checkSessionLimits (read lock, then the  *)
(* redis count); a request with no name or no index goes on to the install *)
CreateCheckLimits(c, agentID, sessionName, port) ==
    /\ pc[c] = "idle"
    /\ IF agentID = ""
       THEN /\ last' = [NoResp EXCEPT !.op = "create", !.status = 400]
            /\ UNCHANGED <<pc, loc>>
       ELSE LET err == checkSessionLimits(agentID) IN
            IF err # NoError
            THEN /\ last' = CreateResp(err, 0, "")
                 /\ UNCHANGED <<pc, loc>>
            ELSE /\ pc' = [pc EXCEPT ![c] =
                             IF sessionName # "" /\ repo
                             THEN "create_name" ELSE "create_install"]
                 /\ loc' = [loc EXCEPT ![c] =
                             [agent |-> agentID, name |-> sessionName,
                              port |-> port, id |-> 0]]
                 /\ UNCHANGED last
    /\ UNCHANGED <<sessions, cdpClients, clientState, repo, redis, nextId, nextCtx,
                   nextPage, now, created, destroyed, navPages>>
    /\ UNCHANGED <<cdpVars, poolVars, sweepVars, opVars, histVars>>

(* the name conflict check against the durable index, before the lock *)
CreateCheckName(c) ==
    /\ pc[c] = "create_name"
    /\ IF CheckSessionNameExists(redis, loc[c].agent, loc[c].name)
       THEN /\ last' = CreateResp(ErrSessionNameConflict, 0, "")
            /\ pc' = [pc EXCEPT ![c] = "idle"]
            /\ loc' = [loc EXCEPT ![c] = NoLoc]
       ELSE /\ pc' = [pc EXCEPT ![c] = "create_install"]
            /\ UNCHANGED <<loc, last>>
    /\ UNCHANGED <<sessions, cdpClients, clientState, repo, redis, nextId, nextCtx,
                   nextPage, now, created, destroyed, navPages>>
    /\ UNCHANGED <<cdpVars, poolVars, sweepVars, opVars, histVars>>

(* under the write lock: mint the id, get the client, create the browser   *)
(* context, install the session, persist it.  connectOk, ctxOk: whether    *)
(* the dial and Target.createBrowserContext succeed; saveFail: the redis   *)
(* write of SaveSession that fails, if any                                 *)
CreateInstall(c, connectOk, ctxOk, saveFail) ==
    /\ pc[c] = "create_install"
    /\ LET sessionID == nextId
           g == GetOrCreateCDPClient(cdpClients, clientState, loc[c].port, connectOk)
           ctxErr == IF g.err # NoError THEN g.err
                     ELSE IF g.clientState[g.client] = "closed"
                     THEN Wrap("failed to create browser context", <<"client closed">>)
                     ELSE IF ~ctxOk
                     THEN Wrap("failed to create browser context", <<"CDP error">>)
                     ELSE NoError
           session == [ID |-> sessionID,
                       Name |-> IF loc[c].name = ""
                                THEN generateSessionName(sessionID, now)
                                ELSE loc[c].name,
                       AgentID |-> loc[c].agent,
                       ProcessPort |-> loc[c].port,
                       ContextID |-> nextCtx,
                       PageIDs |-> <<>>,
                       CDPClient |-> g.client,
                       CreatedAt |-> now,
                       LastActivity |-> now,
                       Status |-> "active"]
           saved == SaveSession(redis, sessionToState(session), saveFail)
       IN
       /\ cdpClients' = g.cdpClients
       /\ clientState' = g.clientState
       /\ IF ctxErr # NoError
          THEN /\ last' = CreateResp(ctxErr, 0, "")
               /\ UNCHANGED <<sessions, redis, expireAt, nextId, nextCtx, created, processes>>
          ELSE /\ sessions' = Put(sessions, sessionID, session)
               /\ processes' = AddSessionCount(processes, loc[c].port, 1)
               /\ redis' = IF repo THEN saved.redis ELSE redis
               /\ expireAt' = IF repo /\ saved.err = NoError
                              THEN Put(expireAt, sessionID, now + SessionTTL) ELSE expireAt
               /\ nextId' = nextId + 1
               /\ nextCtx' = nextCtx + 1
               /\ created' = Put(created, sessionID, session)
               /\ last' = CreateResp(NoError, sessionID,
                                      IF repo /\ saved.err # NoError
                                      THEN "save failed"
                                      ELSE IF repo /\ saved.reserveErr # NoError
                                      THEN "reserve failed"
                                      ELSE "")
    /\ pc' = [pc EXCEPT ![c] = "idle"]
    /\ loc' = [loc EXCEPT ![c] = NoLoc]
    /\ UNCHANGED <<repo, nextPage, now, destroyed, navPages>>
    /\ UNCHANGED <<cdpVars, portVars, dirs, osProcs, poolState, sweepVars, opVars, closed, ghostVars>>

----------------------------------------------------------------------------
(* Manager.CreateSession(port), the unnamed create: the whole body runs     *)
(* under the registry's write lock                                          *)

(* a caller has called CreateSession and waits for the lock *)
CreateSessionCall(c, port) ==
    /\ pc[c] = "idle"
    /\ pc' = [pc EXCEPT ![c] = "create_lock"]
    /\ loc' = [loc EXCEPT ![c] = [NoLoc EXCEPT !.port = port]]
    /\ UNCHANGED <<sessions, cdpClients, clientState, repo, redis, nextId, nextCtx,
                   nextPage, now, last, created, destroyed, navPages>>
    /\ UNCHANGED <<cdpVars, poolVars, sweepVars, opVars, histVars>>

(* the body with every session given the id 1 *)
ManagerCreateSessionSameID(c, connectOk, ctxOk) ==
    /\ pc[c] = "create_lock"
    /\ LET sessionID == 1
           g == GetOrCreateCDPClient(cdpClients, clientState, loc[c].port, connectOk)
           err == IF g.err # NoError
                  THEN Wrap("failed to get or create CDP client", g.err)
                  ELSE IF g.clientState[g.client] = "closed" \/ ~ctxOk
                  THEN Wrap("failed to create browser context", <<"CDP error">>)
                  ELSE NoError
           session == [ID |-> sessionID, Name |-> "", AgentID |-> "",
                       ProcessPort |-> loc[c].port, ContextID |-> nextCtx,
                       PageIDs |-> <<>>, CDPClient |-> g.client,
                       CreatedAt |-> now, LastActivity |-> now, Status |-> "active"]
       IN
       /\ cdpClients' = g.cdpClients
       /\ clientState' = g.clientState
       /\ IF err # NoError
          THEN /\ last' = CreateResp(err, 0, "")
               /\ UNCHANGED <<sessions, nextId, nextCtx, created>>
          ELSE /\ sessions' = Put(sessions, sessionID, session)
               /\ nextId' = nextId + 1
               /\ nextCtx' = nextCtx + 1
               /\ created' = Put(created, sessionID, session)
               /\ last' = CreateResp(NoError, sessionID, "")
    /\ pc' = [pc EXCEPT ![c] = "idle"]
    /\ loc' = [loc EXCEPT ![c] = NoLoc]
    /\ UNCHANGED <<repo, redis, nextPage, now, destroyed, navPages>>
    /\ UNCHANGED <<cdpVars, poolVars, sweepVars, opVars, histVars>>

(* the lock acquired: mint the id, get the client, create the browser      *)
(* context, put the session into the map                                   *)
ManagerCreateSession(c, connectOk, ctxOk) ==
    /\ pc[c] = "create_lock"
    /\ LET sessionID == nextId
           g == GetOrCreateCDPClient(cdpClients, clientState, loc[c].port, connectOk)
           err == IF g.err # NoError
                  THEN Wrap("failed to get or create CDP client", g.err)
                  ELSE IF g.clientState[g.client] = "closed" \/ ~ctxOk
                  THEN Wrap("failed to create browser context", <<"CDP error">>)
                  ELSE NoError
           session == [ID |-> sessionID, Name |-> "", AgentID |-> "",
                       ProcessPort |-> loc[c].port, ContextID |-> nextCtx,
                       PageIDs |-> <<>>, CDPClient |-> g.client,
                       CreatedAt |-> now, LastActivity |-> now, Status |-> "active"]
       IN
       /\ cdpClients' = g.cdpClients
       /\ clientState' = g.clientState
       /\ IF err # NoError
          THEN /\ last' = CreateResp(err, 0, "")
               /\ UNCHANGED <<sessions, nextId, nextCtx, created>>
          ELSE /\ sessions' = Put(sessions, sessionID, session)
               /\ nextId' = nextId + 1
               /\ nextCtx' = nextCtx + 1
               /\ created' = Put(created, sessionID, session)
               /\ last' = CreateResp(NoError, sessionID, "")
    /\ pc' = [pc EXCEPT ![c] = "idle"]
    /\ loc' = [loc EXCEPT ![c] = NoLoc]
    /\ UNCHANGED <<repo, redis, nextPage, now, destroyed, navPages>>
    /\ UNCHANGED <<cdpVars, poolVars, sweepVars, opVars, histVars>>

----------------------------------------------------------------------------
(* DELETE /sessions/{id}: Handlers.DestroySession -> Manager.DestroySession *)

(* every protocol command on a closed client fails *)
CommandFails(client, ok) == clientState[client] = "closed" \/ ~ok

(* some session.CDPClient.CloseTarget(pageID) of DestroySession's loop over *)
(* the session's pages returns an error                                    *)
CloseTargetFails(session, closeOk) ==
    session.PageIDs # <<>> /\ CommandFails(session.CDPClient, closeOk)

(* DestroySession marking the session closed without the delete from the   *)
(* map                                                                     *)
DestroySessionKeepsEntry(c, sessionID, disposeOk) ==
    /\ pc[c] = "idle"
    /\ IF sessionID \notin DOMAIN sessions
       THEN /\ last' = [NoResp EXCEPT !.op = "destroy", !.status = 404, !.id = sessionID]
            /\ UNCHANGED <<sessions, redis, expireAt, destroyed, processes, closeErrs>>
       ELSE IF CommandFails(sessions[sessionID].CDPClient, disposeOk)
       THEN /\ last' = [NoResp EXCEPT !.op = "destroy", !.status = 500, !.id = sessionID]
            /\ UNCHANGED <<sessions, redis, expireAt, destroyed, processes, closeErrs>>
       ELSE /\ redis' = IF repo THEN DeleteSession(redis, sessionID) ELSE redis
            /\ expireAt' = IF repo THEN Drop(expireAt, sessionID) ELSE expireAt
            /\ sessions' = [sessions EXCEPT ![sessionID].Status = "closed"]
            /\ destroyed' = destroyed \cup {sessionID}
            /\ processes' = AddSessionCount(processes, sessions[sessionID].ProcessPort, -1)
            /\ last' = [NoResp EXCEPT !.op = "destroy", !.status = 204, !.id = sessionID]
            /\ \E closeOk \in BOOLEAN :
                  closeErrs' = IF CloseTargetFails(sessions[sessionID], closeOk)
                               THEN closeErrs \cup {sessionID} ELSE closeErrs
    /\ UNCHANGED <<cdpClients, clientState, repo, nextId, nextCtx, nextPage, now,
                   pc, loc, created, navPages>>
    /\ UNCHANGED <<cdpVars, portVars, dirs, osProcs, poolState, sweepVars, opVars, closed, sweptTouched>>

(* DestroySession returning the error of the CloseTarget loop: a session   *)
(* that has pages is not disposed                                          *)
DestroySessionStopsAtCloseTarget(c, sessionID, disposeOk) ==
    /\ pc[c] = "idle"
    /\ IF sessionID \notin DOMAIN sessions
       THEN /\ last' = [NoResp EXCEPT !.op = "destroy", !.status = 404, !.id = sessionID]
            /\ UNCHANGED <<sessions, redis, expireAt, destroyed, processes, closeErrs>>
       ELSE IF \/ CommandFails(sessions[sessionID].CDPClient, disposeOk)
               \/ sessions[sessionID].PageIDs # <<>>
       THEN /\ last' = [NoResp EXCEPT !.op = "destroy", !.status = 500, !.id = sessionID]
            /\ UNCHANGED <<sessions, redis, expireAt, destroyed, processes, closeErrs>>
       ELSE /\ redis' = IF repo THEN DeleteSession(redis, sessionID) ELSE redis
            /\ expireAt' = IF repo THEN Drop(expireAt, sessionID) ELSE expireAt
            /\ sessions' = Drop(sessions, sessionID)
            /\ destroyed' = destroyed \cup {sessionID}
            /\ processes' = AddSessionCount(processes, sessions[sessionID].ProcessPort, -1)
            /\ last' = [NoResp EXCEPT !.op = "destroy", !.status = 204, !.id = sessionID]
            /\ \E closeOk \in BOOLEAN :
                  closeErrs' = IF CloseTargetFails(sessions[sessionID], closeOk)
                               THEN closeErrs \cup {sessionID} ELSE closeErrs
    /\ UNCHANGED <<cdpClients, clientState, repo, nextId, nextCtx, nextPage, now,
                   pc, loc, created, navPages>>
    /\ UNCHANGED <<cdpVars, portVars, dirs, osProcs, poolState, sweepVars, opVars, closed, sweptTouched>>

(* DestroySession closing the client of the session it removes *)
DestroySessionClosesClient(c, sessionID, disposeOk) ==
    /\ pc[c] = "idle"
    /\ IF sessionID \notin DOMAIN sessions
       THEN /\ last' = [NoResp EXCEPT !.op = "destroy", !.status = 404, !.id = sessionID]
            /\ UNCHANGED <<sessions, redis, expireAt, destroyed, processes, closeErrs, clientState>>
       ELSE IF CommandFails(sessions[sessionID].CDPClient, disposeOk)
       THEN /\ last' = [NoResp EXCEPT !.op = "destroy", !.status = 500, !.id = sessionID]
            /\ UNCHANGED <<sessions, redis, expireAt, destroyed, processes, closeErrs, clientState>>
       ELSE /\ redis' = IF repo THEN DeleteSession(redis, sessionID) ELSE redis
            /\ expireAt' = IF repo THEN Drop(expireAt, sessionID) ELSE expireAt
            /\ sessions' = Drop(sessions, sessionID)
            /\ destroyed' = destroyed \cup {sessionID}
            /\ clientState' = [clientState EXCEPT ![sessions[sessionID].CDPClient] = "closed"]
            /\ processes' = AddSessionCount(processes, sessions[sessionID].ProcessPort, -1)
            /\ last' = [NoResp EXCEPT !.op = "destroy", !.status = 204, !.id = sessionID]
            /\ \E closeOk \in BOOLEAN :
                  closeErrs' = IF CloseTargetFails(sessions[sessionID], closeOk)
                               THEN closeErrs \cup {sessionID} ELSE closeErrs
    /\ UNCHANGED <<cdpClients, repo, nextId, nextCtx, nextPage, now,
                   pc, loc, created, navPages>>
    /\ UNCHANGED <<cdpVars, portVars, dirs, osProcs, poolState, sweepVars, opVars, closed, sweptTouched>>

(* closeTarget failures are logged and skipped; a failed dispose returns   *)
(* the error and leaves the session where it is                            *)
DestroySession(c, sessionID, disposeOk) ==
    /\ pc[c] = "idle"
    /\ IF sessionID \notin DOMAIN sessions
       THEN /\ last' = [NoResp EXCEPT !.op = "destroy", !.status = 404, !.id = sessionID]
            /\ UNCHANGED <<sessions, redis, expireAt, destroyed, processes, closeErrs>>
       ELSE IF CommandFails(sessions[sessionID].CDPClient, disposeOk)
       THEN /\ last' = [NoResp EXCEPT !.op = "destroy", !.status = 500, !.id = sessionID]
            /\ UNCHANGED <<sessions, redis, expireAt, destroyed, processes, closeErrs>>
       ELSE /\ redis' = IF repo THEN DeleteSession(redis, sessionID) ELSE redis
            /\ expireAt' = IF repo THEN Drop(expireAt, sessionID) ELSE expireAt
            /\ sessions' = Drop(sessions, sessionID)
            /\ destroyed' = destroyed \cup {sessionID}
            /\ processes' = AddSessionCount(processes, sessions[sessionID].ProcessPort, -1)
            /\ last' = [NoResp EXCEPT !.op = "destroy", !.status = 204, !.id = sessionID]
            /\ \E closeOk \in BOOLEAN :
                  closeErrs' = IF CloseTargetFails(sessions[sessionID], closeOk)
                               THEN closeErrs \cup {sessionID} ELSE closeErrs
    /\ UNCHANGED <<cdpClients, clientState, repo, nextId, nextCtx, nextPage, now,
                   pc, loc, created, navPages>>
    /\ UNCHANGED <<cdpVars, portVars, dirs, osProcs, poolState, sweepVars, opVars, closed, sweptTouched>>

----------------------------------------------------------------------------
(* Manager.Close dropping the session hashes of the durable index *)
ManagerCloseWipesIndex ==
    /\ mu = "free"
    /\ cancelled' = TRUE
    /\ closeReturned' = TRUE
    /\ clientState' = [k \in DOMAIN clientState |->
                         IF k \in Range(cdpClients) THEN "closed" ELSE clientState[k]]
    /\ sessions' = EmptyMap
    /\ cdpClients' = EmptyMap
    /\ redis' = [redis EXCEPT !.session = EmptyMap]
    /\ UNCHANGED <<repo, nextId, nextCtx, nextPage, now, pc, loc, last,
                   created, destroyed, navPages>>
    /\ UNCHANGED <<sweeping, expiredIDs, scanned, exited, mu, cmu>>
    /\ UNCHANGED <<cdpVars, poolVars, opVars, histVars>>

(* Manager.Close: cancel the worker's context, then under the write lock   *)
(* close every client and clear both maps; redis is untouched              *)
ManagerClose ==
    /\ mu = "free"
    /\ cancelled' = TRUE
    /\ closeReturned' = TRUE
    /\ clientState' = [k \in DOMAIN clientState |->
                         IF k \in Range(cdpClients) THEN "closed" ELSE clientState[k]]
    /\ sessions' = EmptyMap
    /\ cdpClients' = EmptyMap
    /\ UNCHANGED <<repo, redis, nextId, nextCtx, nextPage, now, pc, loc, last,
                   created, destroyed, navPages>>
    /\ UNCHANGED <<sweeping, expiredIDs, scanned, exited, mu, cmu>>
    /\ UNCHANGED <<cdpVars, poolVars, opVars, histVars>>

(* cdp.Client.Close called on the client of a port (the worker is lost):   *)
(* the registry is not told                                                *)
ClientClose(port) ==
    /\ port \in DOMAIN cdpClients
    /\ clientState[cdpClients[port]] = "open"
    /\ clientState' = [clientState EXCEPT ![cdpClients[port]] = "closed"]
    /\ UNCHANGED <<sessions, cdpClients, repo, redis, nextId, nextCtx, nextPage, now,
                   pc, loc, last, created, destroyed, navPages>>
    /\ UNCHANGED <<cdpVars, poolVars, sweepVars, opVars, histVars>>

----------------------------------------------------------------------------
(* POST /sessions/resume: Handlers.ResumeSession -> ResumeSessionByName    *)

(* what the caller gets back for a resumed session; note tells how it was  *)
(* resumed, client the state of the client it is bound to at that moment   *)
ResumeResp(err, id, how, cstate, client) ==
    IF err # NoError
    THEN [NoResp EXCEPT !.op = "resume", !.status = 404, !.id = id]
    ELSE [op |-> "resume", status |-> 200, id |-> id, note |-> how,
          client |-> cstate[client]]

(* the name lookup in the durable index, then the look in memory under the *)
(* read lock; a resident session is stamped and returned                   *)
ResumeLookup(c, agentID, sessionName) ==
    /\ pc[c] = "idle"
    /\ LET found == GetSessionByName(redis, agentID, sessionName)
           err == IF agentID = "" \/ sessionName = ""
                  THEN <<"agent_id and session_name are required">>
                  ELSE IF ~repo THEN <<"Redis not configured">>
                  ELSE IF found.err # NoError THEN Wrap("session not found", found.err)
                  ELSE NoError
       IN
       IF err # NoError
       THEN /\ last' = ResumeResp(err, 0, "", clientState, 0)
            /\ UNCHANGED <<sessions, redis, expireAt, pc, loc>>
       ELSE IF found.id \in DOMAIN sessions
       THEN /\ sessions' = [sessions EXCEPT ![found.id].LastActivity = now]
            /\ redis' = UpdateLastActivity(redis, found.id, now)
            /\ expireAt' = Put(expireAt, found.id, now + SessionTTL)
            /\ last' = ResumeResp(NoError, found.id, "resident", clientState,
                                  sessions[found.id].CDPClient)
            /\ UNCHANGED <<pc, loc>>
       ELSE /\ pc' = [pc EXCEPT ![c] = "resume_load"]
            /\ loc' = [loc EXCEPT ![c] =
                         [agent |-> agentID, name |-> sessionName, port |-> 0,
                          id |-> found.id]]
            /\ UNCHANGED <<sessions, redis, expireAt, last>>
    /\ UNCHANGED <<cdpClients, clientState, repo, nextId, nextCtx, nextPage, now,
                   created, destroyed, navPages>>
    /\ UNCHANGED <<cdpVars, poolVars, sweepVars, opVars, closed, ghostVars>>

(* resurrectSession: the Session rebuilt from a SessionState on a client *)
resurrectSession(state, client, t) ==
    [ID |-> state.SessionID,
     Name |-> state.SessionName,
     AgentID |-> state.AgentID,
     ProcessPort |-> state.ProcessPort,
     ContextID |-> state.ContextID,
     PageIDs |-> state.Pages,
     CDPClient |-> client,
     CreatedAt |-> state.CreatedAt,
     LastActivity |-> t,
     Status |-> state.Status]

(* the session was not resident: load its state from redis and resurrect   *)
(* it under the write lock, whatever the map holds for the id by now       *)
ResumeResurrect(c, connectOk) ==
    /\ pc[c] = "resume_load"
    /\ LET got == GetSession(redis, loc[c].id)
           g == GetOrCreateCDPClient(cdpClients, clientState, got.state.ProcessPort,
                                     connectOk)
       IN
       IF got.err # NoError
       THEN /\ last' = ResumeResp(got.err, loc[c].id, "", clientState, 0)
            /\ UNCHANGED <<sessions, cdpClients, clientState, redis, expireAt>>
       ELSE /\ cdpClients' = g.cdpClients
            /\ clientState' = g.clientState
            /\ IF g.err # NoError
               THEN /\ last' = ResumeResp(g.err, loc[c].id, "", clientState, 0)
                    /\ UNCHANGED <<sessions, redis, expireAt>>
               ELSE /\ sessions' = Put(sessions, got.state.SessionID,
                                       resurrectSession(got.state, g.client, now))
                    /\ redis' = UpdateLastActivity(redis, got.state.SessionID, now)
                    /\ expireAt' = Put(expireAt, got.state.SessionID, now + SessionTTL)
                    /\ last' = ResumeResp(NoError, got.state.SessionID, "resurrected",
                                          g.clientState, g.client)
    /\ pc' = [pc EXCEPT ![c] = "idle"]
    /\ loc' = [loc EXCEPT ![c] = NoLoc]
    /\ UNCHANGED <<repo, nextId, nextCtx, nextPage, now, created, destroyed, navPages>>
    /\ UNCHANGED <<cdpVars, poolVars, sweepVars, opVars, closed, ghostVars>>

----------------------------------------------------------------------------
(* POST /sessions/{id}/navigate: Manager.Navigate                          *)

(* createTarget in the session's context, then Session.AddPage; nothing is *)
(* written to redis                                                        *)
Navigate(c, sessionID, targetOk) ==
    /\ pc[c] = "idle"
    /\ IF sessionID \notin DOMAIN sessions
       THEN /\ last' = [NoResp EXCEPT !.op = "navigate", !.status = 404, !.id = sessionID]
            /\ UNCHANGED <<sessions, nextPage, navPages>>
       ELSE IF CommandFails(sessions[sessionID].CDPClient, targetOk)
       THEN /\ last' = [NoResp EXCEPT !.op = "navigate", !.status = 500, !.id = sessionID]
            /\ UNCHANGED <<sessions, nextPage, navPages>>
       ELSE /\ sessions' = [sessions EXCEPT
                              ![sessionID].PageIDs = Append(@, nextPage),
                              ![sessionID].LastActivity = now]
            /\ nextPage' = nextPage + 1
            /\ navPages' = Put(navPages, sessionID,
                               (IF sessionID \in DOMAIN navPages
                                THEN navPages[sessionID] ELSE {}) \cup {nextPage})
            /\ last' = [NoResp EXCEPT !.op = "navigate", !.status = 200, !.id = sessionID]
    /\ UNCHANGED <<cdpClients, clientState, repo, redis, nextId, nextCtx, now,
                   pc, loc, created, destroyed>>
    /\ UNCHANGED <<cdpVars, poolVars, sweepVars, opVars, histVars>>

(* Manager.Navigate in the steps concurrent callers can interleave at: the  *)
(* session is looked up under the registry's read lock and                 *)
(* Target.createTarget is sent; Session.AddPage then runs on the Session   *)
(* with no lock held, so its read of the PageIDs slice and its store of    *)
(* the appended slice are separate steps                                   *)
NavigateCreateTarget(c, sessionID, targetOk) ==
    /\ pc[c] = "idle"
    /\ IF sessionID \notin DOMAIN sessions
       THEN /\ last' = [NoResp EXCEPT !.op = "navigate", !.status = 404, !.id = sessionID]
            /\ UNCHANGED <<nextPage, pc, opLoc>>
       ELSE IF CommandFails(sessions[sessionID].CDPClient, targetOk)
       THEN /\ last' = [NoResp EXCEPT !.op = "navigate", !.status = 500, !.id = sessionID]
            /\ UNCHANGED <<nextPage, pc, opLoc>>
       ELSE /\ nextPage' = nextPage + 1
            /\ pc' = [pc EXCEPT ![c] = "nav_add"]
            /\ opLoc' = [opLoc EXCEPT ![c] =
                           [NoOp EXCEPT !.op = "navigate", !.id = sessionID,
                                        !.page = nextPage]]
            /\ UNCHANGED last
    /\ UNCHANGED <<sessions, cdpClients, clientState, repo, redis, nextId, nextCtx,
                   now, loc, created, destroyed, navPages>>
    /\ UNCHANGED commands
    /\ UNCHANGED <<cdpVars, poolVars, sweepVars, histVars>>

(* Session.AddPage, append's read of s.PageIDs *)
AddPageLoad(c) ==
    /\ pc[c] = "nav_add"
    /\ pc' = [pc EXCEPT ![c] = "nav_store"]
    /\ opLoc' = [opLoc EXCEPT ![c].pages =
                   IF opLoc[c].id \in DOMAIN sessions
                   THEN sessions[opLoc[c].id].PageIDs ELSE <<>>]
    /\ UNCHANGED <<sessions, cdpClients, clientState, repo, redis, nextId, nextCtx,
                   nextPage, now, loc, last, created, destroyed, navPages>>
    /\ UNCHANGED commands
    /\ UNCHANGED <<cdpVars, poolVars, sweepVars, histVars>>

(* Session.AddPage, the store of the appended slice and UpdateActivity;    *)
(* Navigate then returns the page id                                       *)
AddPage(c) ==
    /\ pc[c] = "nav_store"
    /\ sessions' = IF opLoc[c].id \in DOMAIN sessions
                   THEN [sessions EXCEPT
                           ![opLoc[c].id].PageIDs = Append(opLoc[c].pages, opLoc[c].page),
                           ![opLoc[c].id].LastActivity = now]
                   ELSE sessions
    /\ navPages' = Put(navPages, opLoc[c].id,
                       (IF opLoc[c].id \in DOMAIN navPages
                        THEN navPages[opLoc[c].id] ELSE {}) \cup {opLoc[c].page})
    /\ last' = [NoResp EXCEPT !.op = "navigate", !.status = 200, !.id = opLoc[c].id]
    /\ pc' = [pc EXCEPT ![c] = "idle"]
    /\ opLoc' = [opLoc EXCEPT ![c] = NoOp]
    /\ UNCHANGED <<cdpClients, clientState, repo, redis, nextId, nextCtx,
                   nextPage, now, loc, created, destroyed>>
    /\ UNCHANGED commands
    /\ UNCHANGED <<cdpVars, poolVars, sweepVars, histVars>>

----------------------------------------------------------------------------
(* The page-scoped operations: Manager.CaptureScreenshot,                  *)
(* ExecuteJavascript, GetPageContent, GetAccessibilityTree, ClosePage.     *)
(* The session is looked up under the registry's read lock; what follows   *)
(* runs on the Session with no lock held.                                  *)

PageOps == {"screenshot", "evaluate", "content", "accessibility"}

(* slices.Contains(session.PageIDs, pageID) *)
Contains(pageIDs, pageID) == pageID \in Range(pageIDs)

(* Session.RemovePage: the first occurrence is overwritten with the last   *)
(* element and the list is cut by one                                      *)
RemovePage(pageIDs, pageID) ==
    IF ~Contains(pageIDs, pageID) THEN pageIDs
    ELSE LET i == CHOOSE k \in DOMAIN pageIDs :
                      pageIDs[k] = pageID /\ \A j \in 1..(k - 1) : pageIDs[j] # pageID
             n == Len(pageIDs)
         IN SubSeq([pageIDs EXCEPT ![i] = pageIDs[n]], 1, n - 1)

(* what the caller of a page operation gets *)
OpResp(op, status, sessionID, note) ==
    [NoResp EXCEPT !.op = op, !.status = status, !.id = sessionID, !.note = note]

(* the operation as it would be without the test of the page id *)
PageOperationUnchecked(c, op, sessionID, pageID, cmdOk) ==
    /\ pc[c] = "idle"
    /\ IF sessionID \notin DOMAIN sessions
       THEN /\ last' = OpResp(op, 404, sessionID, "session not found")
            /\ UNCHANGED <<pc, commands, opLoc>>
       ELSE /\ commands' = commands + 1
            /\ IF CommandFails(sessions[sessionID].CDPClient, cmdOk)
               THEN /\ last' = OpResp(op, 500, sessionID, "")
                    /\ UNCHANGED <<pc, opLoc>>
               ELSE /\ pc' = [pc EXCEPT ![c] = "op_store"]
                    /\ opLoc' = [opLoc EXCEPT ![c] = [NoOp EXCEPT !.op = op, !.id = sessionID, !.t = now]]
                    /\ UNCHANGED last
    /\ UNCHANGED <<sessions, cdpClients, clientState, repo, redis, nextId, nextCtx,
                   nextPage, now, loc, created, destroyed, navPages>>
    /\ UNCHANGED <<cdpVars, poolVars, sweepVars, histVars>>

(* the operation up to UpdateActivity's reading of the clock: the lookup,  *)
(* the test of the page id, the command(s) to the page; cmdOk is whether   *)
(* they succeed                                                            *)
PageOperation(c, op, sessionID, pageID, cmdOk) ==
    /\ pc[c] = "idle"
    /\ IF sessionID \notin DOMAIN sessions
       THEN /\ last' = OpResp(op, 404, sessionID, "session not found")
            /\ UNCHANGED <<pc, commands, opLoc>>
       ELSE IF ~Contains(sessions[sessionID].PageIDs, pageID)
       THEN /\ last' = OpResp(op, 404, sessionID, "page not found")
            /\ UNCHANGED <<pc, commands, opLoc>>
       ELSE /\ commands' = commands + 1
            /\ IF CommandFails(sessions[sessionID].CDPClient, cmdOk)
               THEN /\ last' = OpResp(op, 500, sessionID, "")
                    /\ UNCHANGED <<pc, opLoc>>
               ELSE /\ pc' = [pc EXCEPT ![c] = "op_store"]
                    /\ opLoc' = [opLoc EXCEPT ![c] = [NoOp EXCEPT !.op = op, !.id = sessionID, !.t = now]]
                    /\ UNCHANGED last
    /\ UNCHANGED <<sessions, cdpClients, clientState, repo, redis, nextId, nextCtx,
                   nextPage, now, loc, created, destroyed, navPages>>
    /\ UNCHANGED <<cdpVars, poolVars, sweepVars, histVars>>

(* ClosePage up to the same point: the lookup, the test, Target.closeTarget *)
(* and RemovePage's edit of the list                                       *)
ClosePage(c, sessionID, pageID, cmdOk) ==
    /\ pc[c] = "idle"
    /\ IF sessionID \notin DOMAIN sessions
       THEN /\ last' = OpResp("close_page", 404, sessionID, "session not found")
            /\ UNCHANGED <<sessions, pc, commands, opLoc, closed>>
       ELSE IF ~Contains(sessions[sessionID].PageIDs, pageID)
       THEN /\ last' = OpResp("close_page", 404, sessionID, "page not found")
            /\ UNCHANGED <<sessions, pc, commands, opLoc, closed>>
       ELSE /\ commands' = commands + 1
            /\ IF CommandFails(sessions[sessionID].CDPClient, cmdOk)
               THEN /\ last' = OpResp("close_page", 500, sessionID, "")
                    /\ UNCHANGED <<sessions, pc, opLoc, closed>>
               ELSE /\ sessions' = [sessions EXCEPT ![sessionID].PageIDs =
                                       RemovePage(@, pageID)]
                    /\ pc' = [pc EXCEPT ![c] = "op_store"]
                    /\ opLoc' = [opLoc EXCEPT ![c] =
                                   [NoOp EXCEPT !.op = "close_page", !.id = sessionID,
                                                !.t = now]]
                    /\ closed' = closed \cup {pageID}
                    /\ UNCHANGED last
    /\ UNCHANGED <<cdpClients, clientState, repo, redis, nextId, nextCtx,
                   nextPage, now, loc, created, destroyed, navPages>>
    /\ UNCHANGED <<cdpVars, poolVars, sweepVars, expireAt, ghostVars>>

(* Session.UpdateActivity, its assignment: the time read is stored in the  *)
(* Session (which may have left the registry by now) and the operation     *)
(* returns                                                                 *)
UpdateActivity(c) ==
    /\ pc[c] = "op_store"
    /\ sessions' = IF opLoc[c].id \in DOMAIN sessions
                   THEN [sessions EXCEPT ![opLoc[c].id].LastActivity = opLoc[c].t]
                   ELSE sessions
    /\ last' = OpResp(opLoc[c].op, 200, opLoc[c].id, "")
    /\ pc' = [pc EXCEPT ![c] = "idle"]
    /\ opLoc' = [opLoc EXCEPT ![c] = NoOp]
    /\ UNCHANGED commands
    /\ UNCHANGED <<cdpClients, clientState, repo, redis, nextId, nextCtx,
                   nextPage, now, loc, created, destroyed, navPages>>
    /\ UNCHANGED <<cdpVars, poolVars, sweepVars, histVars>>

(* a client can still be made for the port, within the model's bound *)
ClientAvailable(port) ==
    port \in DOMAIN cdpClients \/ Cardinality(DOMAIN clientState) < MaxClients

----------------------------------------------------------------------------
(* The registry's life cycle: one client of the service issuing requests   *)
(* one after the other, while time passes, the registry may be closed      *)
(* (after which the same durable index serves the resumed sessions) and a  *)
(* worker's protocol client may be closed.                                 *)

LifeCallers == {1}
LifeAgents == {"a1"}

Next ==
    \/ Tick
    \/ \E c \in LifeCallers, a \in LifeAgents \cup {""}, n \in Names \cup {""},
          p \in Ports :
          CreateCheckLimits(c, a, n, p)
    \/ \E c \in LifeCallers : CreateCheckName(c)
    \/ \E c \in LifeCallers, connectOk \in BOOLEAN, ctxOk \in BOOLEAN,
          saveFail \in {"none", "hset", "reserve"} :
          /\ nextId <= MaxIds
          /\ pc[c] = "create_install"
          /\ ClientAvailable(loc[c].port)
          /\ CreateInstall(c, connectOk, ctxOk, saveFail)
    \/ \E c \in LifeCallers, id \in 1..MaxIds, ok \in BOOLEAN :
          DestroySession(c, id, ok)
    \/ ManagerClose
    \/ \E p \in Ports : ClientClose(p)
    \/ \E c \in LifeCallers, a \in LifeAgents, n \in Names : ResumeLookup(c, a, n)
    \/ \E c \in LifeCallers, connectOk \in BOOLEAN :
          /\ pc[c] = "resume_load"
          /\ ClientAvailable(GetSession(redis, loc[c].id).state.ProcessPort)
          /\ ResumeResurrect(c, connectOk)
    \/ \E c \in LifeCallers, id \in 1..MaxIds, ok \in BOOLEAN :
          nextPage <= MaxPages /\ Navigate(c, id, ok)

Spec == Init /\ [][Next]_vars

----------------------------------------------------------------------------
(* Concurrent creation and destruction: NumCallers callers, two agents,    *)
(* named and unnamed sessions, with and without a durable index; every     *)
(* redis and protocol call succeeds.                                       *)

NextRace ==
    \/ \E c \in Callers, a \in Agents \cup {""}, n \in Names \cup {""}, p \in Ports :
          CreateCheckLimits(c, a, n, p)
    \/ \E c \in Callers : CreateCheckName(c)
    \/ \E c \in Callers :
          nextId <= MaxIds /\ CreateInstall(c, TRUE, TRUE, "none")
    \/ \E c \in Callers, id \in 1..MaxIds : DestroySession(c, id, TRUE)

SpecRace == Init /\ [][NextRace]_vars

----------------------------------------------------------------------------
(* Creation driven to the quotas: NumCallers callers creating unnamed      *)
(* sessions for one agent on one worker, every redis and protocol call     *)
(* succeeding, until the limits stop them.                                 *)

NextQuota ==
    \/ \E c \in Callers, p \in Ports : CreateCheckLimits(c, "a1", "", p)
    \/ \E c \in Callers : CreateInstall(c, TRUE, TRUE, "none")

SpecQuota == Init /\ [][NextQuota]_vars

----------------------------------------------------------------------------
(* The protocol client (cdp.Client) of one worker: NumCallers goroutines   *)
(* sending target-scoped commands, the browser answering, the reader       *)
(* dispatching the answers, and Close.  Every critical section of c.mu is  *)
(* one step; the socket write and the wait are steps outside the lock.     *)

(* the ids a call in progress may still allocate *)
IdsOwed(k) == IF cpc[k] = "attach_register"
              THEN (IF cloc[k].target = "" THEN 1 ELSE 2)
              ELSE IF cpc[k] \in {"attach_write", "attach_wait", "attach_store"}
                      /\ cloc[k].target # ""
              THEN 1
              ELSE 0

RECURSIVE IdsOwedBy(_)
IdsOwedBy(ks) == IF ks = {} THEN 0
                 ELSE LET k == CHOOSE x \in ks : TRUE
                      IN IdsOwed(k) + IdsOwedBy(ks \ {k})

(* the call returns an error to caller k: its response channel is garbage; *)
(* a failed attach call is counted                                         *)
ReturnError(k) ==
    /\ attachFailed' = IF cpc[k] \in {"attach_write", "attach_wait"}
                          /\ cloc[k].target # ""
                       THEN [attachFailed EXCEPT ![cloc[k].target] = @ + 1]
                       ELSE attachFailed
    /\ chans' = Drop(chans, cloc[k].id)
    /\ cpc' = [cpc EXCEPT ![k] = "idle"]
    /\ cloc' = [cloc EXCEPT ![k] = NoCall]

(* a caller calls SendCommand itself, for a browser-scoped command: it has *)
(* no target                                                               *)
BrowserCommand(k) ==
    /\ cpc[k] = "idle"
    /\ requestID + IdsOwedBy(Callers) + 1 <= MaxRequests
    /\ cpc' = [cpc EXCEPT ![k] = "attach_register"]
    /\ UNCHANGED <<requestID, pending, targetSessions, ctxDone, conn, chans, cloc,
                   nextLabel, attachSent, attachFailed, drained, allocs>>
    /\ UNCHANGED <<mgrVars, poolVars, sweepVars, opVars, histVars>>

(* SendCommandToTarget, first critical section: with a cached label the    *)
(* request is registered at once; without one the lock is released and     *)
(* SendCommand("Target.attachToTarget") is called                          *)
SendCommandToTarget(k, targetID) ==
    /\ cpc[k] = "idle"
    /\ cmu = 0
    /\ requestID + IdsOwedBy(Callers) + 2 <= MaxRequests
    /\ IF targetID \in DOMAIN targetSessions
       THEN /\ requestID' = requestID + 1
            /\ pending' = pending \cup {requestID + 1}
            /\ chans' = Put(chans, requestID + 1, EmptyChan)
            /\ allocs' = Append(allocs, requestID + 1)
            /\ cpc' = [cpc EXCEPT ![k] = "target_write"]
            /\ cloc' = [cloc EXCEPT ![k] =
                          [target |-> targetID, id |-> requestID + 1,
                           sessionID |-> targetSessions[targetID]]]
       ELSE /\ cpc' = [cpc EXCEPT ![k] = "attach_register"]
            /\ cloc' = [cloc EXCEPT ![k] = [NoCall EXCEPT !.target = targetID]]
            /\ UNCHANGED <<requestID, pending, chans, allocs>>
    /\ UNCHANGED <<targetSessions, ctxDone, conn, nextLabel, attachSent, attachFailed,
                   drained>>
    /\ UNCHANGED <<mgrVars, poolVars, sweepVars, opVars, histVars>>

(* SendCommand as it would be had it registered the channel without        *)
(* advancing requestID                                                     *)
SendCommandKeepsCounter(k) ==
    /\ cpc[k] = "attach_register"
    /\ cmu = 0
    /\ requestID' = requestID
    /\ pending' = pending \cup {requestID + 1}
    /\ chans' = Put(chans, requestID + 1, EmptyChan)
    /\ allocs' = Append(allocs, requestID + 1)
    /\ cpc' = [cpc EXCEPT ![k] = "attach_write"]
    /\ cloc' = [cloc EXCEPT ![k].id = requestID + 1]
    /\ UNCHANGED <<targetSessions, ctxDone, conn, nextLabel, attachSent, attachFailed,
                   drained>>
    /\ UNCHANGED <<mgrVars, poolVars, sweepVars, opVars, histVars>>

(* SendCommand, its critical section: allocate the id, register the channel; *)
(* c.mu.Lock() waits while the mutex is held                               *)
SendCommand(k) ==
    /\ cpc[k] = "attach_register"
    /\ cmu = 0
    /\ requestID' = requestID + 1
    /\ pending' = pending \cup {requestID + 1}
    /\ chans' = Put(chans, requestID + 1, EmptyChan)
    /\ allocs' = Append(allocs, requestID + 1)
    /\ cpc' = [cpc EXCEPT ![k] = "attach_write"]
    /\ cloc' = [cloc EXCEPT ![k].id = requestID + 1]
    /\ UNCHANGED <<targetSessions, ctxDone, conn, nextLabel, attachSent, attachFailed,
                   drained>>
    /\ UNCHANGED <<mgrVars, poolVars, sweepVars, opVars, histVars>>

(* json.Marshal of the command fails (a value in params that JSON cannot   *)
(* hold): the call returns the error at once                               *)
MarshalError(k) ==
    /\ cpc[k] \in {"attach_write", "target_write"}
    /\ ReturnError(k)
    /\ UNCHANGED <<requestID, pending, targetSessions, ctxDone, conn, nextLabel,
                   attachSent, drained, allocs>>
    /\ UNCHANGED <<mgrVars, poolVars, sweepVars, opVars, histVars>>

(* conn.WriteMessage of the frame, outside the lock; a failed write (always *)
(* so on a closed connection) removes the pending entry and returns        *)
WriteMessage(k, writeOk) ==
    /\ cpc[k] \in {"attach_write", "target_write"}
    /\ IF ctxDone \/ ~writeOk
       THEN /\ cmu = 0
            /\ pending' = pending \ {cloc[k].id}
            /\ ReturnError(k)
            /\ UNCHANGED <<conn, attachSent>>
       ELSE /\ conn' = conn \cup
                  {[id |-> cloc[k].id,
                    method |-> IF cpc[k] = "attach_write" /\ cloc[k].target # ""
                               THEN "Target.attachToTarget" ELSE "command",
                    target |-> cloc[k].target,
                    sessionID |-> cloc[k].sessionID]}
            /\ attachSent' = IF cpc[k] = "attach_write" /\ cloc[k].target # ""
                             THEN [attachSent EXCEPT ![cloc[k].target] = @ + 1]
                             ELSE attachSent
            /\ cpc' = [cpc EXCEPT ![k] =
                         IF cpc[k] = "attach_write" THEN "attach_wait" ELSE "target_wait"]
            /\ UNCHANGED <<pending, cloc, attachFailed, chans>>
    /\ UNCHANGED <<requestID, targetSessions, ctxDone, nextLabel, drained, allocs>>
    /\ UNCHANGED <<mgrVars, poolVars, sweepVars, opVars, histVars>>

(* the select: a response arrived on the channel.  An attach response is   *)
(* parsed and the call goes on to store the label; a response received     *)
(* from a channel that Close closed is nil, and reading its Error panics   *)
ReceiveResponse(k) ==
    /\ cpc[k] \in {"attach_wait", "target_wait"}
    /\ chans[cloc[k].id].state # "empty"
    /\ LET r == chans[cloc[k].id] IN
       IF r.state = "closed"
       THEN /\ cpc' = [cpc EXCEPT ![k] = "panicked"]
            /\ UNCHANGED <<cloc, attachFailed, chans>>
       ELSE IF r.error
       THEN ReturnError(k)
       ELSE IF cpc[k] = "attach_wait" /\ cloc[k].target # ""
       THEN /\ cpc' = [cpc EXCEPT ![k] = "attach_store"]
            /\ cloc' = [cloc EXCEPT ![k].sessionID = r.sessionID]
            /\ chans' = Drop(chans, cloc[k].id)
            /\ UNCHANGED attachFailed
       ELSE /\ cpc' = [cpc EXCEPT ![k] = "idle"]
            /\ cloc' = [cloc EXCEPT ![k] = NoCall]
            /\ chans' = Drop(chans, cloc[k].id)
            /\ UNCHANGED attachFailed
    /\ UNCHANGED <<requestID, pending, targetSessions, ctxDone, conn, nextLabel,
                   attachSent, drained, allocs>>
    /\ UNCHANGED <<mgrVars, poolVars, sweepVars, opVars, histVars>>

(* the select: the deadline passed; the pending entry is removed *)
CommandTimeout(k) ==
    /\ cpc[k] \in {"attach_wait", "target_wait"}
    /\ cmu = 0
    /\ pending' = pending \ {cloc[k].id}
    /\ ReturnError(k)
    /\ UNCHANGED <<requestID, targetSessions, ctxDone, conn, nextLabel, attachSent,
                   drained, allocs>>
    /\ UNCHANGED <<mgrVars, poolVars, sweepVars, opVars, histVars>>

(* the select: ctx.Done, the client is closing *)
ClientClosed(k) ==
    /\ cpc[k] \in {"attach_wait", "target_wait"}
    /\ ctxDone
    /\ ReturnError(k)
    /\ UNCHANGED <<requestID, pending, targetSessions, ctxDone, conn, nextLabel,
                   attachSent, drained, allocs>>
    /\ UNCHANGED <<mgrVars, poolVars, sweepVars, opVars, histVars>>

(* SendCommandToTarget, second critical section: store the label, then     *)
(* allocate the id and register the channel of the command itself; in      *)
(* AttachToTarget, which holds the mutex since its first line, store the   *)
(* label, return it and unlock                                             *)
StoreAttachment(k) ==
    /\ cpc[k] = "attach_store"
    /\ cmu \in {0, k}
    /\ targetSessions' = Put(targetSessions, cloc[k].target, cloc[k].sessionID)
    /\ IF cmu = k
       THEN /\ cmu' = 0
            /\ cpc' = [cpc EXCEPT ![k] = "idle"]
            /\ cloc' = [cloc EXCEPT ![k] = NoCall]
            /\ UNCHANGED <<requestID, pending, chans, allocs>>
       ELSE /\ requestID' = requestID + 1
            /\ pending' = pending \cup {requestID + 1}
            /\ chans' = Put(chans, requestID + 1, EmptyChan)
            /\ allocs' = Append(allocs, requestID + 1)
            /\ cpc' = [cpc EXCEPT ![k] = "target_write"]
            /\ cloc' = [cloc EXCEPT ![k].id = requestID + 1]
            /\ UNCHANGED cmu
    /\ UNCHANGED <<ctxDone, conn, nextLabel, attachSent, attachFailed, drained>>
    /\ UNCHANGED <<sweeping, expiredIDs, scanned, cancelled, exited, mu, closeReturned>>
    /\ UNCHANGED <<mgrVars, poolVars, opVars, histVars>>

(* Client.AttachToTarget, from c.mu.Lock() to the call of SendCommand: a   *)
(* cached label is returned and the deferred Unlock runs; without one the  *)
(* caller goes into SendCommand with the mutex held                        *)
AttachToTarget(k, targetID) ==
    /\ cpc[k] = "idle"
    /\ cmu = 0
    /\ requestID + IdsOwedBy(Callers) + 1 <= MaxRequests
    /\ IF targetID \in DOMAIN targetSessions
       THEN UNCHANGED <<cmu, cpc, cloc>>
       ELSE /\ cmu' = k
            /\ cpc' = [cpc EXCEPT ![k] = "attach_register"]
            /\ cloc' = [cloc EXCEPT ![k] = [NoCall EXCEPT !.target = targetID]]
    /\ UNCHANGED <<requestID, pending, targetSessions, ctxDone, conn, chans, nextLabel,
                   attachSent, attachFailed, drained, allocs>>
    /\ UNCHANGED <<sweeping, expiredIDs, scanned, cancelled, exited, mu, closeReturned>>
    /\ UNCHANGED <<mgrVars, poolVars, opVars, histVars>>

(* the browser answers a frame and the reader dispatches the answer: the   *)
(* response is delivered on the channel of its id and the pending entry is *)
(* removed; an answer to an id that is not pending is dropped.  The        *)
(* browser gives each attachment a new label                               *)
handleMessage(f, ok) ==
    /\ ~ctxDone
    /\ f \in conn
    /\ conn' = conn \ {f}
    /\ nextLabel' = IF ok /\ f.method = "Target.attachToTarget"
                    THEN nextLabel + 1 ELSE nextLabel
    /\ IF f.id \in pending
       THEN /\ chans' = [chans EXCEPT ![f.id] =
                           [state |-> "full",
                            id |-> f.id,
                            sessionID |-> IF ok /\ f.method = "Target.attachToTarget"
                                          THEN nextLabel ELSE 0,
                            error |-> ~ok]]
            /\ pending' = pending \ {f.id}
       ELSE UNCHANGED <<chans, pending>>
    /\ UNCHANGED <<requestID, targetSessions, ctxDone, cpc, cloc, attachSent, attachFailed,
                   drained, allocs>>
    /\ UNCHANGED <<mgrVars, poolVars, sweepVars, opVars, histVars>>

(* Close, once: cancel the context and close the socket *)
Close ==
    /\ ~ctxDone
    /\ ctxDone' = TRUE
    /\ UNCHANGED <<requestID, pending, targetSessions, conn, chans, cpc, cloc, nextLabel,
                   attachSent, attachFailed, drained, allocs>>
    /\ UNCHANGED <<mgrVars, poolVars, sweepVars, opVars, histVars>>

(* Close, its critical section: close and drop every pending channel *)
ClosePending ==
    /\ ctxDone
    /\ ~drained
    /\ cmu = 0
    /\ drained' = TRUE
    /\ chans' = [i \in DOMAIN chans |->
                   IF i \in pending THEN [chans[i] EXCEPT !.state = "closed"]
                   ELSE chans[i]]
    /\ pending' = {}
    /\ UNCHANGED <<requestID, targetSessions, ctxDone, conn, cpc, cloc, nextLabel,
                   attachSent, attachFailed, allocs>>
    /\ UNCHANGED <<mgrVars, poolVars, sweepVars, opVars, histVars>>

NextCdp ==
    \/ \E k \in Callers, t \in Targets : SendCommandToTarget(k, t)
    \/ \E k \in Callers : BrowserCommand(k)
    \/ \E k \in Callers : SendCommand(k)
    \/ \E k \in Callers : MarshalError(k)
    \/ \E k \in Callers, writeOk \in BOOLEAN : WriteMessage(k, writeOk)
    \/ \E k \in Callers : ReceiveResponse(k)
    \/ \E k \in Callers : CommandTimeout(k)
    \/ \E k \in Callers : ClientClosed(k)
    \/ \E k \in Callers : StoreAttachment(k)
    \/ \E f \in conn, ok \in BOOLEAN : handleMessage(f, ok)
    \/ Close
    \/ ClosePending

SpecCdp == Init /\ [][NextCdp]_vars

(* The client used through AttachToTarget as well: callers attach to       *)
(* targets and send target-scoped commands, the browser answers every      *)
(* frame, a wait can time out.                                             *)
NextAttach ==
    \/ \E k \in Callers, t \in Targets : AttachToTarget(k, t)
    \/ \E k \in Callers, t \in Targets : SendCommandToTarget(k, t)
    \/ \E k \in Callers : SendCommand(k)
    \/ \E k \in Callers : WriteMessage(k, TRUE)
    \/ \E k \in Callers : ReceiveResponse(k)
    \/ \E k \in Callers : CommandTimeout(k)
    \/ \E k \in Callers : StoreAttachment(k)
    \/ \E f \in conn : handleMessage(f, TRUE)

SpecAttach == Init /\ [][NextAttach]_vars

(* the steps of the call caller k has in progress *)
CallStep(k) ==
    \/ SendCommand(k)
    \/ WriteMessage(k, TRUE)
    \/ ReceiveResponse(k)
    \/ CommandTimeout(k)
    \/ StoreAttachment(k)

(* every goroutine that can go on with its call does so in the end *)
FairAttach == SpecAttach /\ \A k \in Callers : WF_vars(CallStep(k))

----------------------------------------------------------------------------
(* The port allocator (package browser): a stack of free ports, as decimal *)
(* strings, and the set of the ports flagged free, both under one mutex.   *)

(* strconv.Atoi of a port string: the number, or an error *)
AtoiPort(s) ==
    IF \E n \in (MinPortRange - 1)..MaxPortRange : Itoa(n) = s
    THEN [n |-> CHOOSE n \in (MinPortRange - 1)..MaxPortRange : Itoa(n) = s,
          err |-> FALSE]
    ELSE [n |-> 0, err |-> TRUE]

(* the loop of GetFreePort: ports are popped off the top and unflagged     *)
(* until IsPortAvailable says yes; nBusy is how many of the ports on top   *)
(* the probe finds in use by another program.  [port, stack, set, err]     *)
popFreePort(stack, set, nBusy) ==
    LET n == Len(stack) IN
    IF nBusy >= n
    THEN [port |-> "", stack |-> <<>>, set |-> set \ Range(stack), err |-> TRUE]
    ELSE [port |-> stack[n - nBusy],
          stack |-> SubSeq(stack, 1, n - nBusy - 1),
          set |-> set \ {stack[i] : i \in (n - nBusy)..n},
          err |-> FALSE]

(* the body of ReturnPort without the look into the set *)
pushPortUnchecked(stack, set, port) ==
    LET a == AtoiPort(port) IN
    IF a.err \/ a.n < MinPortRange \/ a.n >= MaxPortRange
    THEN [stack |-> stack, set |-> set]
    ELSE [stack |-> Append(stack, port), set |-> set \cup {port}]

(* the body of ReturnPort: [stack, set] *)
pushPort(stack, set, port) ==
    LET a == AtoiPort(port) IN
    IF a.err \/ a.n < MinPortRange \/ a.n >= MaxPortRange
    THEN [stack |-> stack, set |-> set]
    ELSE IF port \in set
    THEN [stack |-> stack, set |-> set]
    ELSE [stack |-> Append(stack, port), set |-> set \cup {port}]

GetFreePort(nBusy) ==
    /\ acquired < MaxAcquire
    /\ LET g == popFreePort(freePortsStack, freePortsSet, nBusy) IN
       /\ freePortsStack' = g.stack
       /\ freePortsSet' = g.set
       /\ held' = IF g.err THEN held ELSE held \cup {g.port}
    /\ acquired' = acquired + 1
    /\ UNCHANGED <<mgrVars, cdpVars, procVars, sweepVars, opVars, histVars>>

ReturnPort(port) ==
    /\ LET r == pushPort(freePortsStack, freePortsSet, port) IN
       /\ freePortsStack' = r.stack
       /\ freePortsSet' = r.set
    /\ held' = held \ {port}
    /\ UNCHANGED acquired
    /\ UNCHANGED <<mgrVars, cdpVars, procVars, sweepVars, opVars, histVars>>

(* what callers pass to ReturnPort: a port they hold, a port that is free  *)
(* already, a number outside the range, a string that is no number         *)
ReturnInputs ==
    held \cup {Itoa(MinPortRange), Itoa(MinPortRange - 1), Itoa(MaxPortRange), "port"}

NextPorts ==
    \/ \E nBusy \in 0..MaxBusy : GetFreePort(nBusy)
    \/ \E port \in ReturnInputs : ReturnPort(port)

SpecPorts == Init /\ [][NextPorts]_vars

----------------------------------------------------------------------------
(* The worker pool (pool.ProcessPool) and its workers (browser.Process).   *)
(* The allocator, the directories and the browser processes are threaded   *)
(* through the construction and the shutdown as one record:                *)
(*   [stack, set, held, processes, dirs, osProcs, err, failed]             *)

PoolWorld ==
    [stack |-> freePortsStack, set |-> freePortsSet, held |-> held,
     processes |-> processes, dirs |-> dirs, osProcs |-> osProcs,
     err |-> FALSE, failed |-> 0]

(* NewProcess and Start for one worker: a port, a data directory, the      *)
(* browser process.  nBusy as in GetFreePort; mkdirOk is whether           *)
(* os.MkdirTemp succeeds; a failure gives the port back                    *)
NewManagedProcess(a, nBusy, mkdirOk) ==
    LET g == popFreePort(a.stack, a.set, nBusy) IN
    IF g.err
    THEN [a EXCEPT !.stack = g.stack, !.set = g.set, !.err = TRUE]
    ELSE IF ~mkdirOk
    THEN LET r == pushPort(g.stack, g.set, g.port) IN
         [a EXCEPT !.stack = r.stack, !.set = r.set, !.err = TRUE]
    ELSE LET port == AtoiPort(g.port).n IN
         [a EXCEPT !.stack = g.stack, !.set = g.set,
                   !.held = @ \cup {g.port},
                   !.processes = Append(@, [DebugPort |-> port,
                                            UserDataDir |-> port,
                                            Status |-> "running",
                                            sessionCount |-> 0,
                                            healthy |-> TRUE]),
                   !.dirs = @ \cup {port},
                   !.osProcs = Put(@, port, "running")]

(* how Process.Stop can go for a browser process in the given state:       *)
(*   graceful      Wait returns nil or "signal: terminated"                *)
(*   exit_error    Wait returns any other error (a crash, a non-zero exit) *)
(*   killed        5 s pass and Kill succeeds                              *)
(*   kill_failed   5 s pass and Kill fails (the process has just finished) *)
(*   remove_failed the process is gone but os.RemoveAll fails              *)
AllStopOutcomes == {"graceful", "exit_error", "killed", "kill_failed", "remove_failed"}

StopOutcomes(os) ==
    IF os = "running" THEN AllStopOutcomes
    ELSE {"graceful", "exit_error", "remove_failed"}

(* Process.Stop of worker p: every error return leaves what comes after it *)
(* undone, the directory removal and ReturnPort last                       *)
Stop(a, p, outcome) ==
    IF outcome \in {"exit_error", "kill_failed", "remove_failed"}
    THEN [a EXCEPT !.osProcs[p.DebugPort] = IF @ = "running" THEN "exited" ELSE @,
                   !.failed = @ + 1]
    ELSE LET r == pushPort(a.stack, a.set, Itoa(p.DebugPort)) IN
         [a EXCEPT !.osProcs[p.DebugPort] =
                       IF outcome = "killed" THEN "killed"
                       ELSE IF @ = "running" THEN "exited" ELSE @,
                   !.dirs = @ \ {p.UserDataDir},
                   !.stack = r.stack,
                   !.set = r.set,
                   !.held = @ \ {Itoa(p.DebugPort)}]

(* the loop of Shutdown over the workers from index i on *)
RECURSIVE stopAll(_, _, _)
stopAll(a, outcomes, i) ==
    IF i > Len(a.processes) THEN [a EXCEPT !.processes = <<>>]
    ELSE stopAll(Stop(a, a.processes[i], outcomes[i]), outcomes, i + 1)

(* the outcomes Stop can have for each worker of the record *)
OutcomesFor(a) ==
    {o \in [1..MaxPool -> AllStopOutcomes] :
        \A i \in 1..MaxPool :
            IF i \in DOMAIN a.processes
            THEN o[i] \in StopOutcomes(a.osProcs[a.processes[i].DebugPort])
            ELSE o[i] = "graceful"}

(* the loop of NewProcessPool from worker i on; worker failAt fails to get *)
(* its directory (0: none does)                                            *)
RECURSIVE startAll(_, _, _, _, _)
startAll(a, poolSize, busy, failAt, i) ==
    IF i > poolSize \/ a.err THEN a
    ELSE startAll(NewManagedProcess(a, busy[i], i # failAt), poolSize, busy, failAt, i + 1)

install(a) ==
    /\ freePortsStack' = a.stack
    /\ freePortsSet' = a.set
    /\ held' = a.held
    /\ processes' = a.processes
    /\ dirs' = a.dirs
    /\ osProcs' = a.osProcs

(* NewProcessPool: the size is validated, the workers are started one     *)
(* after the other, and a failure shuts down those already started         *)
NewProcessPool(poolSize, busy, failAt, outcomes) ==
    /\ poolState = "none"
    /\ IF poolSize < 1 \/ poolSize > 10
       THEN /\ poolState' = "failed"
            /\ UNCHANGED <<freePortsStack, freePortsSet, held, processes, dirs, osProcs>>
       ELSE LET a == startAll(PoolWorld, poolSize, busy, failAt, 1) IN
            IF a.err
            THEN /\ outcomes \in OutcomesFor(a)
                 /\ install(stopAll(a, outcomes, 1))
                 /\ poolState' = "failed"
            ELSE /\ install(a)
                 /\ poolState' = "up"
    /\ UNCHANGED acquired
    /\ UNCHANGED <<mgrVars, cdpVars, sweepVars, opVars, histVars>>

(* a browser process ends on its own *)
ProcessExits(i) ==
    /\ poolState = "up"
    /\ i \in DOMAIN processes
    /\ osProcs[processes[i].DebugPort] = "running"
    /\ osProcs' = [osProcs EXCEPT ![processes[i].DebugPort] = "exited"]
    /\ UNCHANGED <<processes, dirs, poolState, portVars>>
    /\ UNCHANGED <<mgrVars, cdpVars, sweepVars, opVars, histVars>>

(* ProcessPool.Shutdown: Stop every worker, going on after an error, then  *)
(* clear the slice                                                         *)
Shutdown(outcomes) ==
    /\ poolState = "up"
    /\ outcomes \in OutcomesFor(PoolWorld)
    /\ install(stopAll(PoolWorld, outcomes, 1))
    /\ poolState' = "down"
    /\ UNCHANGED acquired
    /\ UNCHANGED <<mgrVars, cdpVars, sweepVars, opVars, histVars>>

NextPool ==
    \/ \E poolSize \in 0..MaxPool, busy \in [1..MaxPool -> 0..MaxBusy],
          failAt \in 0..MaxPool, outcomes \in [1..MaxPool -> AllStopOutcomes] :
           NewProcessPool(poolSize, busy, failAt, outcomes)
    \/ \E i \in 1..MaxPool : ProcessExits(i)
    \/ \E outcomes \in [1..MaxPool -> AllStopOutcomes] : Shutdown(outcomes)

SpecPool == Init /\ [][NextPool]_vars

----------------------------------------------------------------------------
(* One worker at a time (browser.Process) as its callers drive it:          *)
(* NewProcess, Start once, Stop as often as the caller likes.  Beside the   *)
(* fields of the Process a record keeps                                     *)
(*   Cmd       "nil" (Start not called), "unstarted" (Cmd set, Cmd.Process  *)
(*             nil: the spawn failed), "started"                            *)
(*   waited    Cmd.Wait has been called by a Stop                           *)
(*   signals   the termination signals that were sent to the process        *)
(*   stops     the Stop calls that have returned                            *)
(*   lastStop  what the last Stop returned: "", "ok", "error"               *)

(* the Stop calls made on one worker *)
MaxStops == 2

(* NewProcess: a port off the allocator and a data directory; a failure to *)
(* make the directory gives the port back                                  *)
NewProcess(nBusy, mkdirOk) ==
    /\ acquired < MaxAcquire
    /\ Len(processes) < MaxPool
    /\ LET g == popFreePort(freePortsStack, freePortsSet, nBusy) IN
       IF g.err
       THEN /\ freePortsStack' = g.stack
            /\ freePortsSet' = g.set
            /\ UNCHANGED <<held, processes, dirs>>
       ELSE IF ~mkdirOk
       THEN LET r == pushPort(g.stack, g.set, g.port) IN
            /\ freePortsStack' = r.stack
            /\ freePortsSet' = r.set
            /\ UNCHANGED <<held, processes, dirs>>
       ELSE LET port == AtoiPort(g.port).n IN
            /\ freePortsStack' = g.stack
            /\ freePortsSet' = g.set
            /\ held' = held \cup {g.port}
            /\ dirs' = dirs \cup {port}
            /\ processes' = Append(processes,
                              [DebugPort |-> port, UserDataDir |-> port,
                               Status |-> "starting", sessionCount |-> 0,
                               healthy |-> TRUE, Cmd |-> "nil", waited |-> FALSE,
                               signals |-> 0, stops |-> 0, lastStop |-> ""])
    /\ acquired' = acquired + 1
    /\ UNCHANGED <<osProcs, poolState>>
    /\ UNCHANGED <<mgrVars, cdpVars, sweepVars, opVars, histVars>>

(* Process.Start: the command is built and spawned; spawnOk is whether      *)
(* Cmd.Start succeeds                                                       *)
Start(i, spawnOk) ==
    /\ i \in DOMAIN processes
    /\ processes[i].Cmd = "nil"
    /\ IF spawnOk
       THEN /\ processes' = [processes EXCEPT ![i].Cmd = "started",
                                              ![i].Status = "running"]
            /\ osProcs' = Put(osProcs, processes[i].DebugPort, "running")
       ELSE /\ processes' = [processes EXCEPT ![i].Cmd = "unstarted",
                                              ![i].Status = "failed"]
            /\ UNCHANGED osProcs
    /\ UNCHANGED <<dirs, poolState, portVars>>
    /\ UNCHANGED <<mgrVars, cdpVars, sweepVars, opVars, histVars>>

(* how a Stop call on the worker can go: once Wait has been called the      *)
(* process handle is done and Signal fails ("os: process already           *)
(* finished"), or, the waiting goroutine of a force-kill still running,    *)
(* the second Wait fails                                                    *)
WorkerStopOutcomes(p, os) ==
    IF p.waited THEN {"signal_failed", "exit_error"} ELSE StopOutcomes(os)

(* Process.Stop on worker i *)
ProcessStop(i, outcome) ==
    /\ i \in DOMAIN processes
    /\ processes[i].stops < MaxStops
    /\ LET p == processes[i] IN
       IF p.Cmd # "started"
       THEN /\ processes' = [processes EXCEPT ![i].stops = @ + 1,
                                              ![i].lastStop = "error"]
            /\ UNCHANGED <<dirs, osProcs, portVars>>
       ELSE /\ outcome \in WorkerStopOutcomes(p, osProcs[p.DebugPort])
            /\ IF outcome = "signal_failed"
               THEN /\ processes' = [processes EXCEPT ![i].stops = @ + 1,
                                                      ![i].lastStop = "error"]
                    /\ UNCHANGED <<dirs, osProcs, portVars>>
               ELSE LET a == Stop(PoolWorld, p, outcome) IN
                    /\ freePortsStack' = a.stack
                    /\ freePortsSet' = a.set
                    /\ held' = a.held
                    /\ dirs' = a.dirs
                    /\ osProcs' = a.osProcs
                    /\ processes' = [processes EXCEPT
                          ![i].Status = IF a.failed = 0 THEN "stopped" ELSE @,
                          ![i].waited = TRUE,
                          ![i].signals = @ + 1,
                          ![i].stops = @ + 1,
                          ![i].lastStop = IF a.failed = 0 THEN "ok" ELSE "error"]
                    /\ UNCHANGED acquired
    /\ UNCHANGED poolState
    /\ UNCHANGED <<mgrVars, cdpVars, sweepVars, opVars, histVars>>

NextWorker ==
    \/ \E nBusy \in 0..MaxBusy, mkdirOk \in BOOLEAN : NewProcess(nBusy, mkdirOk)
    \/ \E i \in 1..MaxPool, spawnOk \in BOOLEAN : Start(i, spawnOk)
    \/ \E i \in 1..MaxPool, outcome \in AllStopOutcomes \cup {"signal_failed"} :
          ProcessStop(i, outcome)

SpecWorker == Init /\ [][NextWorker]_vars

----------------------------------------------------------------------------
(* The load balancer (pool.LoadBalancer) and the requests that go through  *)
(* it.  A worker's session count and health flag are fields of its record. *)

(* the loop of SelectProcess over the snapshot from index i on: the index  *)
(* selected so far (0: nil) and minSessions, which starts at -1            *)
RECURSIVE selectFrom(_, _, _, _)
selectFrom(ps, i, selected, minSessions) ==
    IF i > Len(ps) THEN selected
    ELSE IF ~ps[i].healthy THEN selectFrom(ps, i + 1, selected, minSessions)
    ELSE IF minSessions = -1 \/ ps[i].sessionCount < minSessions
    THEN selectFrom(ps, i + 1, i, ps[i].sessionCount)
    ELSE selectFrom(ps, i + 1, selected, minSessions)

(* SelectProcess on a snapshot of the pool: [index, port, err] *)
SelectProcess(ps) ==
    IF Len(ps) = 0
    THEN [index |-> 0, port |-> 0, err |-> "no processes in the pool"]
    ELSE LET selected == selectFrom(ps, 1, 0, -1) IN
         IF selected = 0
         THEN [index |-> 0, port |-> 0, err |-> "no healthy processes in the pool"]
         ELSE [index |-> selected, port |-> ps[selected].DebugPort, err |-> ""]

(* Handlers.CreateSession up to the call of CreateSessionWithName: the     *)
(* agent id is validated, and a request that names no port (0) gets the    *)
(* port of the worker the load balancer selects, or 503                    *)
CreateSession(c, agentID, sessionName, browserPort) ==
    LET sel == SelectProcess(processes) IN
    IF agentID # "" /\ browserPort = 0 /\ sel.err # ""
    THEN /\ pc[c] = "idle"
         /\ last' = [NoResp EXCEPT !.op = "create", !.status = 503]
         /\ UNCHANGED <<sessions, cdpClients, clientState, repo, redis, nextId, nextCtx,
                        nextPage, now, pc, loc, created, destroyed, navPages>>
         /\ UNCHANGED <<cdpVars, poolVars, sweepVars, opVars, histVars>>
    ELSE CreateCheckLimits(c, agentID, sessionName,
                           IF browserPort = 0 THEN sel.port ELSE browserPort)

(* the health monitor looks at worker i: it is healthy when its process is *)
(* alive and its debug endpoint answers                                    *)
HealthCheck(i, reachable) ==
    /\ poolState = "up"
    /\ i \in DOMAIN processes
    /\ processes' = [processes EXCEPT ![i].healthy =
                        osProcs[processes[i].DebugPort] = "running" /\ reachable]
    /\ UNCHANGED <<portVars, dirs, osProcs, poolState>>
    /\ UNCHANGED <<mgrVars, cdpVars, sweepVars, opVars, histVars>>

----------------------------------------------------------------------------
(* The cleanup worker (Manager.StartCleanupWorker): on each tick of its    *)
(* ticker it runs cleanupExpiredSessions, in two phases.                   *)

IsExpired(s, timeout) == now - s.LastActivity > timeout

(* the orders in which a range over a Go map can yield the ids of S *)
Orders(S) == {q \in [1..Cardinality(S) -> S] : Range(q) = S}

(* the worker's select takes the ticker case, then phase 1 under the read  *)
(* lock: collect the ids of the expired sessions                           *)
cleanupExpiredSessions(timeout) ==
    /\ ~sweeping
    /\ ~exited
    /\ mu = "free"
    /\ LET expired == {id \in DOMAIN sessions : IsExpired(sessions[id], timeout)} IN
       /\ expiredIDs' \in Orders(expired)
       /\ scanned' = expired
       /\ sweeping' = (expired # {})
    /\ UNCHANGED workerVars
    /\ UNCHANGED <<mgrVars, cdpVars, poolVars, opVars, histVars>>

(* the destroy phase passing over a session whose activity stamp is the   *)
(* present                                                                 *)
cleanupDestroyRechecks(disposeOk) ==
    /\ sweeping
    /\ LET sessionID == Head(expiredIDs) IN
       IF sessionID \notin DOMAIN sessions \/ sessions[sessionID].LastActivity = now
       THEN UNCHANGED <<sessions, redis, expireAt, destroyed, sweptTouched>>
       ELSE IF CommandFails(sessions[sessionID].CDPClient, disposeOk)
       THEN UNCHANGED <<sessions, redis, expireAt, destroyed, sweptTouched>>
       ELSE /\ redis' = IF repo THEN DeleteSession(redis, sessionID) ELSE redis
            /\ expireAt' = IF repo THEN Drop(expireAt, sessionID) ELSE expireAt
            /\ sessions' = Drop(sessions, sessionID)
            /\ destroyed' = destroyed \cup {sessionID}
            /\ sweptTouched' = IF sessions[sessionID].LastActivity = now
                               THEN sweptTouched \cup {sessionID} ELSE sweptTouched
    /\ expiredIDs' = Tail(expiredIDs)
    /\ sweeping' = (Tail(expiredIDs) # <<>>)
    /\ mu' = "free"
    /\ UNCHANGED <<scanned, cancelled, exited, closeReturned, cmu>>
    /\ UNCHANGED <<cdpClients, clientState, repo, nextId, nextCtx, nextPage, now,
                   pc, loc, last, created, navPages>>
    /\ UNCHANGED <<cdpVars, poolVars, opVars, closed, closeErrs>>

(* phase 2, one id at a time: Manager.DestroySession, its error logged;    *)
(* the worker's session count is the handlers' business and is not touched *)
cleanupDestroy(disposeOk) ==
    /\ sweeping
    /\ LET sessionID == Head(expiredIDs) IN
       IF sessionID \notin DOMAIN sessions
       THEN UNCHANGED <<sessions, redis, expireAt, destroyed, sweptTouched>>
       ELSE IF CommandFails(sessions[sessionID].CDPClient, disposeOk)
       THEN UNCHANGED <<sessions, redis, expireAt, destroyed, sweptTouched>>
       ELSE /\ redis' = IF repo THEN DeleteSession(redis, sessionID) ELSE redis
            /\ expireAt' = IF repo THEN Drop(expireAt, sessionID) ELSE expireAt
            /\ sessions' = Drop(sessions, sessionID)
            /\ destroyed' = destroyed \cup {sessionID}
            /\ sweptTouched' = IF sessions[sessionID].LastActivity = now
                               THEN sweptTouched \cup {sessionID} ELSE sweptTouched
    /\ expiredIDs' = Tail(expiredIDs)
    /\ sweeping' = (Tail(expiredIDs) # <<>>)
    /\ mu' = "free"
    /\ UNCHANGED <<scanned, cancelled, exited, closeReturned, cmu>>
    /\ UNCHANGED <<cdpClients, clientState, repo, nextId, nextCtx, nextPage, now,
                   pc, loc, last, created, navPages>>
    /\ UNCHANGED <<cdpVars, poolVars, opVars, closed, closeErrs>>

(* the worker's DestroySession of the next collected id takes the write lock *)
cleanupLock ==
    /\ sweeping
    /\ mu = "free"
    /\ mu' = "sweeper"
    /\ UNCHANGED <<sweeping, expiredIDs, scanned, cancelled, exited, closeReturned, cmu>>
    /\ UNCHANGED <<mgrVars, cdpVars, poolVars, opVars, histVars>>

(* the worker's select takes the m.ctx.Done() case: the goroutine returns *)
WorkerStop ==
    /\ ~sweeping
    /\ ~exited
    /\ cancelled
    /\ exited' = TRUE
    /\ UNCHANGED <<sweeping, expiredIDs, scanned, cancelled, mu, closeReturned, cmu>>
    /\ UNCHANGED <<mgrVars, cdpVars, poolVars, opVars, histVars>>

(* Manager.Close, its first statement: m.cancel(); the caller then waits   *)
(* for the write lock                                                      *)
ManagerCancel ==
    /\ ~cancelled
    /\ cancelled' = TRUE
    /\ UNCHANGED <<sweeping, expiredIDs, scanned, exited, mu, closeReturned, cmu>>
    /\ UNCHANGED <<mgrVars, cdpVars, poolVars, opVars, histVars>>

(* the pool as main builds it: every port free, every directory made *)
StartPool(poolSize) ==
    NewProcessPool(poolSize, [i \in 1..MaxPool |-> 0], 0,
                   [i \in 1..MaxPool |-> "graceful"])

(* The service under load: a pool of workers, NumCallers callers creating  *)
(* unnamed sessions through the load balancer and destroying them, the     *)
(* cleanup worker sweeping, time passing; the dispose of a context can     *)
(* fail, every other call succeeds.                                        *)
NextSweep ==
    \/ \E poolSize \in 1..MaxPool : StartPool(poolSize)
    \/ Tick
    \/ \E c \in Callers : poolState = "up" /\ CreateSession(c, "a1", "", 0)
    \/ \E c \in Callers :
          /\ nextId <= MaxIds
          /\ ClientAvailable(loc[c].port)
          /\ CreateInstall(c, TRUE, TRUE, "none")
    \/ \E c \in Callers, id \in 1..MaxIds, ok \in BOOLEAN : DestroySession(c, id, ok)
    \/ \E timeout \in 0..MaxTime : cleanupExpiredSessions(timeout)
    \/ \E ok \in BOOLEAN : cleanupDestroy(ok)

SpecSweep == Init /\ [][NextSweep]_vars

----------------------------------------------------------------------------
(* Sessions at work: NumCallers callers creating sessions on one worker,   *)
(* navigating, operating on pages and closing them while time passes; the  *)
(* commands to a page can fail, every other call succeeds.                 *)

(* the page ids callers pass: those navigate can return and one more *)
PageInputs == 1..(MaxPages + 1)

NextOps ==
    \/ Tick
    \/ \E c \in Callers, p \in Ports : nextId <= MaxIds /\ CreateCheckLimits(c, "a1", "", p)
    \/ \E c \in Callers : nextId <= MaxIds /\ CreateInstall(c, TRUE, TRUE, "none")
    \/ \E c \in Callers, id \in 1..MaxIds :
          nextPage <= MaxPages /\ Navigate(c, id, TRUE)
    \/ \E c \in Callers, op \in PageOps, id \in 1..MaxIds, page \in PageInputs,
          ok \in BOOLEAN :
          commands < MaxCommands /\ PageOperation(c, op, id, page, ok)
    \/ \E c \in Callers, id \in 1..MaxIds, page \in PageInputs, ok \in BOOLEAN :
          commands < MaxCommands /\ ClosePage(c, id, page, ok)
    \/ \E c \in Callers : UpdateActivity(c)

SpecOps == Init /\ [][NextOps]_vars

----------------------------------------------------------------------------
(* Concurrent unnamed creates: NumCallers callers in Manager.CreateSession *)
(* on one worker while time passes; the dial and the context creation can  *)
(* fail.                                                                   *)

(* the calls made *)
MaxCalls == 3

NextCreate ==
    \/ Tick
    \/ \E c \in Callers, p \in Ports :
          nextId + Cardinality({k \in Callers : pc[k] = "create_lock"}) <= MaxCalls
          /\ CreateSessionCall(c, p)
    \/ \E c \in Callers, connectOk \in BOOLEAN, ctxOk \in BOOLEAN :
          ManagerCreateSession(c, connectOk, ctxOk)

SpecCreate == Init /\ [][NextCreate]_vars

----------------------------------------------------------------------------
(* Clients under concurrent creates and resumes: NumCallers callers create *)
(* named and unnamed sessions on two workers and resume them by name; the  *)
(* registry may be closed in between, after which resumes resurrect the    *)
(* sessions the durable index kept.  Every dial and command succeeds.      *)

ClientPorts == {MaxPortRange - 2, MaxPortRange - 1}

NextClients ==
    \/ \E c \in Callers, n \in Names \cup {""}, p \in ClientPorts :
          CreateCheckLimits(c, "a1", n, p)
    \/ \E c \in Callers : CreateCheckName(c)
    \/ \E c \in Callers :
          /\ nextId <= MaxIds
          /\ pc[c] = "create_install"
          /\ ClientAvailable(loc[c].port)
          /\ CreateInstall(c, TRUE, TRUE, "none")
    \/ \E c \in Callers, n \in Names : ResumeLookup(c, "a1", n)
    \/ \E c \in Callers :
          /\ pc[c] = "resume_load"
          /\ ClientAvailable(GetSession(redis, loc[c].id).state.ProcessPort)
          /\ ResumeResurrect(c, TRUE)
    \/ ManagerClose

SpecClients == Init /\ [][NextClients]_vars

----------------------------------------------------------------------------
(* The durable index's expiry at work: sessions are created with a durable *)
(* index, navigated and operated on while time passes, and redis drops a   *)
(* key whose TTL has run out.                                              *)

(* redis expiring the key session:<id> the repository's EXPIRE put a TTL   *)
(* on                                                                      *)
RedisExpire(id) ==
    /\ id \in DOMAIN expireAt
    /\ now >= expireAt[id]
    /\ redis' = [redis EXCEPT !.session = Drop(@, id)]
    /\ expireAt' = Drop(expireAt, id)
    /\ UNCHANGED <<sessions, cdpClients, clientState, repo, nextId, nextCtx,
                   nextPage, now, pc, loc, last, created, destroyed, navPages>>
    /\ UNCHANGED <<cdpVars, poolVars, sweepVars, opVars, closed, ghostVars>>

NextTTL ==
    \/ Tick
    \/ \E c \in Callers, n \in Names \cup {""}, p \in Ports :
          nextId <= MaxIds /\ CreateCheckLimits(c, "a1", n, p)
    \/ \E c \in Callers : CreateCheckName(c)
    \/ \E c \in Callers : nextId <= MaxIds /\ CreateInstall(c, TRUE, TRUE, "none")
    \/ \E c \in Callers, id \in 1..MaxIds :
          nextPage <= MaxPages /\ Navigate(c, id, TRUE)
    \/ \E c \in Callers, op \in PageOps, id \in 1..MaxIds, page \in 1..MaxPages :
          commands < MaxCommands /\ PageOperation(c, op, id, page, TRUE)
    \/ \E c \in Callers : UpdateActivity(c)
    \/ \E id \in 1..MaxIds : RedisExpire(id)

SpecTTL == Init /\ [][NextTTL]_vars

----------------------------------------------------------------------------
(* Creates that are turned down: NumCallers callers creating named and     *)
(* unnamed sessions for one agent on one worker with a durable index,      *)
(* until the name is taken and the agent's quota is used up.               *)

NextReject ==
    \/ \E c \in Callers, n \in Names \cup {""}, p \in Ports :
          repo /\ CreateCheckLimits(c, "a1", n, p)
    \/ \E c \in Callers : CreateCheckName(c)
    \/ \E c \in Callers, ctxOk \in BOOLEAN : CreateInstall(c, TRUE, ctxOk, "none")

SpecReject == Init /\ [][NextReject]_vars

----------------------------------------------------------------------------
(* Activity during a sweep: sessions are created on one worker and         *)
(* navigated while time passes and the cleanup worker sweeps; the dispose  *)
(* of a context can fail.                                                  *)

NextTouch ==
    \/ Tick
    \/ \E c \in Callers, p \in Ports : nextId <= MaxIds /\ CreateCheckLimits(c, "a1", "", p)
    \/ \E c \in Callers : nextId <= MaxIds /\ CreateInstall(c, TRUE, TRUE, "none")
    \/ \E c \in Callers, id \in 1..MaxIds :
          nextPage <= MaxPages /\ Navigate(c, id, TRUE)
    \/ \E timeout \in 0..MaxTime : cleanupExpiredSessions(timeout)
    \/ \E ok \in BOOLEAN : cleanupDestroy(ok)

SpecTouch == Init /\ [][NextTouch]_vars

----------------------------------------------------------------------------
(* One worker shared by several sessions: NumCallers callers create        *)
(* sessions on the same port, navigate in them and destroy them, the       *)
(* dispose failing or not; the registry may be closed.  Nothing but the    *)
(* registry closes a client.                                               *)
NextShared ==
    \/ \E c \in Callers, p \in Ports : nextId <= MaxIds /\ CreateCheckLimits(c, "a1", "", p)
    \/ \E c \in Callers : nextId <= MaxIds /\ CreateInstall(c, TRUE, TRUE, "none")
    \/ \E c \in Callers, id \in 1..MaxIds :
          nextPage <= MaxPages /\ Navigate(c, id, TRUE)
    \/ \E c \in Callers, id \in 1..MaxIds, ok \in BOOLEAN : DestroySession(c, id, ok)
    \/ ManagerClose

SpecShared == Init /\ [][NextShared]_vars

----------------------------------------------------------------------------
(* Concurrent resumes: a named session of agent a1 is created on one       *)
(* worker, the registry is closed (the session is no longer resident, its  *)
(* durable entry stays), and NumCallers callers resume it by name while    *)
(* time passes and the resumed session is navigated in; every redis and    *)
(* protocol call succeeds.                                                 *)
NextResume ==
    \/ Tick
    \/ \E c \in Callers, n \in Names, p \in Ports :
          nextId <= 1 /\ repo /\ CreateCheckLimits(c, "a1", n, p)
    \/ \E c \in Callers : CreateCheckName(c)
    \/ \E c \in Callers : nextId <= 1 /\ CreateInstall(c, TRUE, TRUE, "none")
    \/ ~closeReturned /\ ManagerClose
    \/ \E c \in Callers, n \in Names : repo /\ ResumeLookup(c, "a1", n)
    \/ \E c \in Callers : ResumeResurrect(c, TRUE)
    \/ \E c \in Callers, id \in 1..MaxIds :
          nextPage <= MaxPages /\ Navigate(c, id, TRUE)

SpecResume == Init /\ [][NextResume]_vars

----------------------------------------------------------------------------
(* PUT /sessions/{id}/rename: Handlers.RenameSession ->                    *)
(* Manager.RenameSession -> SessionRepository.RenameSession; each redis    *)
(* call is a step of its own, no lock is held across them                  *)

(* the names a rename asks for *)
NewNames == {"task", "other"}

(* the handler's answer: its test for the name conflict compares the error *)
(* with the repository's text, which Manager.RenameSession has wrapped, so *)
(* every error is answered 500                                             *)
RenameResp(ok, sessionID) ==
    [NoResp EXCEPT !.op = "rename", !.status = IF ok THEN 200 ELSE 500, !.id = sessionID]

(* the names of agent a reserved to session id in the durable index *)
ReservedTo(r, a, id) == {n \in DOMAIN r.sessionNames[a] : r.sessionNames[a][n] = id}

(* GetSession, the agent test, and the repository's CheckSessionNameExists *)
(* for the new name; without an index the name is changed in memory only.  *)
(* oldName is read here; had is history: the names reserved to the session *)
(* when the rename began                                                   *)
RenameSession(c, sessionID, newName) ==
    /\ pc[c] = "idle"
    /\ IF sessionID \notin DOMAIN sessions
       THEN /\ last' = RenameResp(FALSE, sessionID)
            /\ UNCHANGED <<sessions, pc, loc>>
       ELSE IF sessions[sessionID].AgentID = ""
       THEN /\ last' = RenameResp(FALSE, sessionID)
            /\ UNCHANGED <<sessions, pc, loc>>
       ELSE IF ~repo
       THEN /\ sessions' = [sessions EXCEPT ![sessionID].Name = newName]
            /\ last' = RenameResp(TRUE, sessionID)
            /\ UNCHANGED <<pc, loc>>
       ELSE IF CheckSessionNameExists(redis, sessions[sessionID].AgentID, newName)
       THEN /\ last' = RenameResp(FALSE, sessionID)
            /\ UNCHANGED <<sessions, pc, loc>>
       ELSE /\ pc' = [pc EXCEPT ![c] = "rename_release"]
            /\ loc' = [loc EXCEPT ![c] =
                         [agent |-> sessions[sessionID].AgentID, name |-> newName,
                          port |-> 0, id |-> sessionID,
                          old |-> sessions[sessionID].Name,
                          had |-> ReservedTo(redis, sessions[sessionID].AgentID,
                                             sessionID)]]
            /\ UNCHANGED <<sessions, last>>
    /\ UNCHANGED <<cdpClients, clientState, repo, redis, nextId, nextCtx,
                   nextPage, now, created, destroyed, navPages>>
    /\ UNCHANGED <<cdpVars, poolVars, sweepVars, opVars, histVars>>

(* ReleaseSessionName of the old name; its error is only logged *)
RenameRelease(c) ==
    /\ pc[c] = "rename_release"
    /\ redis' = ReleaseSessionName(redis, loc[c].agent, loc[c].old)
    /\ pc' = [pc EXCEPT ![c] = "rename_reserve"]
    /\ UNCHANGED <<sessions, cdpClients, clientState, repo, nextId, nextCtx,
                   nextPage, now, loc, last, created, destroyed, navPages>>
    /\ UNCHANGED <<cdpVars, poolVars, sweepVars, opVars, histVars>>

(* ReserveSessionName of the new name, the HSET of session_name in the     *)
(* session hash, then session.Name = newName on the record the caller got  *)
(* from GetSession; fail names the redis write that fails                  *)
RenameReserve(c, fail) ==
    /\ pc[c] = "rename_reserve"
    /\ LET res == ReserveSessionName(redis, loc[c].agent, loc[c].name, loc[c].id,
                                     fail # "reserve")
       IN
       IF res.err # NoError
       THEN /\ last' = RenameResp(FALSE, loc[c].id)
            /\ UNCHANGED <<sessions, redis>>
       ELSE IF fail = "hset"
       THEN /\ redis' = res.redis
            /\ last' = RenameResp(FALSE, loc[c].id)
            /\ UNCHANGED sessions
       ELSE /\ redis' = [res.redis EXCEPT !.session =
                           Put(@, loc[c].id,
                               Put(HGetAll(res.redis, loc[c].id), "session_name",
                                   loc[c].name))]
            /\ sessions' = IF loc[c].id \in DOMAIN sessions
                           THEN [sessions EXCEPT ![loc[c].id].Name = loc[c].name]
                           ELSE sessions
            /\ last' = RenameResp(TRUE, loc[c].id)
    /\ pc' = [pc EXCEPT ![c] = "idle"]
    /\ loc' = [loc EXCEPT ![c] = NoLoc]
    /\ UNCHANGED <<cdpClients, clientState, repo, nextId, nextCtx,
                   nextPage, now, created, destroyed, navPages>>
    /\ UNCHANGED <<cdpVars, poolVars, sweepVars, opVars, histVars>>

(* Renames among creates: NumCallers callers create named sessions of      *)
(* agent a1 on one worker and rename them, an index being configured; the  *)
(* writes of a rename can fail, every other call succeeds.                 *)
NextRename ==
    \/ \E c \in Callers, n \in NewNames, p \in Ports :
          nextId <= MaxIds /\ repo /\ CreateCheckLimits(c, "a1", n, p)
    \/ \E c \in Callers : CreateCheckName(c)
    \/ \E c \in Callers : nextId <= MaxIds /\ CreateInstall(c, TRUE, TRUE, "none")
    \/ \E c \in Callers, id \in 1..MaxIds, n \in NewNames : repo /\ RenameSession(c, id, n)
    \/ \E c \in Callers : RenameRelease(c)
    \/ \E c \in Callers, fail \in {"none", "reserve", "hset"} : RenameReserve(c, fail)

SpecRename == Init /\ [][NextRename]_vars

----------------------------------------------------------------------------
(* Shutdown while the cleanup worker runs: sessions are created on one     *)
(* worker and expire as time passes; the cleanup worker scans and destroys *)
(* one id at a time, holding the registry's lock for each destroy; Close   *)
(* cancels the worker's context and then waits for the lock.               *)
NextStop ==
    \/ Tick
    \/ \E c \in Callers, p \in Ports :
          nextId <= MaxIds /\ ~cancelled /\ CreateCheckLimits(c, "a1", "", p)
    \/ \E c \in Callers :
          nextId <= MaxIds /\ mu = "free" /\ CreateInstall(c, TRUE, TRUE, "none")
    \/ \E timeout \in 0..MaxTime : cleanupExpiredSessions(timeout)
    \/ cleanupLock
    \/ \E ok \in BOOLEAN : cleanupDestroy(ok)
    \/ ManagerCancel
    \/ cancelled /\ ~closeReturned /\ ManagerClose
    \/ WorkerStop

SpecStop == Init /\ [][NextStop]_vars

(* the same under the scheduling the runtime gives: the worker's steps are *)
(* taken when they stay possible, and a select or a Lock that is possible  *)
(* again and again is taken in the end (select picks among its ready cases *)
(* at random, sync.Mutex hands the lock to a starved waiter)               *)
FairStop ==
    /\ SpecStop
    /\ WF_vars(cleanupLock)
    /\ WF_vars(\E ok \in BOOLEAN : cleanupDestroy(ok))
    /\ SF_vars(WorkerStop)
    /\ SF_vars(cancelled /\ ~closeReturned /\ ManagerClose)

----------------------------------------------------------------------------
(* Pages of one session under concurrent callers: a session is created,    *)
(* callers navigate and close pages at the same time; every command        *)
(* to the browser succeeds unless ClosePage's is made to fail.             *)

(* the pages the callers open between them *)
MaxOpened == 2

NextPages ==
    \/ \E c \in Callers, p \in Ports : nextId <= 1 /\ CreateCheckLimits(c, "a1", "", p)
    \/ \E c \in Callers : nextId <= 1 /\ CreateInstall(c, TRUE, TRUE, "none")
    \/ \E c \in Callers : nextPage <= MaxOpened /\ NavigateCreateTarget(c, 1, TRUE)
    \/ \E c \in Callers : AddPageLoad(c)
    \/ \E c \in Callers : AddPage(c)
    \/ \E c \in Callers, page \in 1..MaxOpened, ok \in BOOLEAN :
          commands < MaxCommands /\ ClosePage(c, 1, page, ok)
    \/ \E c \in Callers : UpdateActivity(c)

SpecPages == Init /\ [][NextPages]_vars

----------------------------------------------------------------------------
(* The service stopped and started again: main returns after Shutdown and  *)
(* runs anew, with a registry, a pool and an allocator as at first, while  *)
(* the durable index keeps what it held.                                   *)
Restart ==
    /\ poolState = "down"
    /\ \A c \in Callers : pc[c] = "idle"
    /\ ~sweeping
    /\ sessions' = EmptyMap
    /\ cdpClients' = EmptyMap
    /\ clientState' = EmptyMap
    /\ freePortsStack' = [i \in 1..(MaxPortRange - MinPortRange) |-> Itoa(MinPortRange + i - 1)]
    /\ freePortsSet' = {Itoa(i) : i \in MinPortRange..(MaxPortRange - 1)}
    /\ held' = {}
    /\ poolState' = "none"
    /\ UNCHANGED <<repo, redis, nextId, nextCtx, nextPage, now, pc, loc, last,
                   created, destroyed, navPages>>
    /\ UNCHANGED <<acquired, processes, dirs, osProcs>>
    /\ UNCHANGED <<cdpVars, sweepVars, opVars, histVars>>

(* One caller creating, resuming and destroying sessions through the load  *)
(* balancer while workers die and are found unhealthy and the service is   *)
(* restarted; every redis and protocol call succeeds.                      *)
NextSelect ==
    \/ \E poolSize \in 1..MaxPool : StartPool(poolSize)
    \/ \E i \in 1..MaxPool : ProcessExits(i)
    \/ \E i \in 1..MaxPool, reachable \in BOOLEAN : HealthCheck(i, reachable)
    \/ \E c \in LifeCallers, n \in Names \cup {""} :
          poolState = "up" /\ CreateSession(c, "a1", n, 0)
    \/ \E c \in LifeCallers : CreateCheckName(c)
    \/ \E c \in LifeCallers :
          /\ nextId <= MaxIds
          /\ ClientAvailable(loc[c].port)
          /\ CreateInstall(c, TRUE, TRUE, "none")
    \/ \E c \in LifeCallers, id \in 1..MaxIds :
          poolState = "up" /\ DestroySession(c, id, TRUE)
    \/ \E c \in LifeCallers, n \in Names :
          poolState = "up" /\ ResumeLookup(c, "a1", n)
    \/ \E c \in LifeCallers :
          /\ pc[c] = "resume_load"
          /\ ClientAvailable(GetSession(redis, loc[c].id).state.ProcessPort)
          /\ ResumeResurrect(c, TRUE)
    \/ Shutdown([i \in 1..MaxPool |-> "graceful"])
    \/ Restart

SpecSelect == Init /\ [][NextSelect]_vars

----------------------------------------------------------------------------
(* Properties of session creation, destruction and resumption               *)

(* the sessions resident in the registry that carry the name of agent a *)
Named(a, n) == {id \in DOMAIN sessions :
                   sessions[id].AgentID = a /\ sessions[id].Name = n}

(* C1: with a durable index configured, callers creating concurrently with *)
(* the same agent and the same name get one success and name conflicts for *)
(* the rest: at no point do two sessions of an agent carry the same        *)
(* requested name.                                                         *)
C1_OneCreateWinsTheName ==
    repo => \A a \in Agents, n \in Names : Cardinality(Named(a, n)) <= 1

(* C2: in every reachable state (agent, name) is unique among the sessions *)
(* that were not deleted, whether or not a durable index is configured: a  *)
(* second create with the same agent and name creates nothing.             *)
C2_AgentNameUnique ==
    \A i, j \in DOMAIN sessions :
        (sessions[i].AgentID = sessions[j].AgentID
            /\ sessions[i].Name = sessions[j].Name) => i = j

(* C3: a create refused because the agent is at its cap of sessions is     *)
(* reported to the caller as the quota kind (429), not as an internal      *)
(* error, and adds no session.                                             *)
C3_QuotaReportedAsQuota ==
    (last.op = "create" /\ last.note = "agent limit") =>
        (last.status = 429 /\ last.id = 0)

(* C4: the number of sessions resident in the registry never exceeds       *)
(* maxTotalSessions, under any interleaving of creates.                    *)
C4_GlobalCapEnforced ==
    Cardinality(DOMAIN sessions) <= MaxTotalSessions

(* C5: once DestroySession succeeded for a session, the durable index      *)
(* holds neither a name reservation for its id nor its id in the agent's   *)
(* session set.                                                            *)
C5_DestroyReleasesNameAndMembership ==
    \A a \in Agents :
        /\ redis.agentSessions[a] \cap destroyed = {}
        /\ \A n \in DOMAIN redis.sessionNames[a] :
              redis.sessionNames[a][n] \notin destroyed

(* C6: when reserving the name fails during create, the session is not     *)
(* created: the caller gets an error and no session id.                    *)
C6_FailedReservationCreatesNothing ==
    (last.op = "create" /\ last.note = "reserve failed") =>
        (last.status >= 400 /\ last.id = 0)

(* C7: a session resumed by name from the durable index comes back with    *)
(* the id, name, agent, port, context handle and created-at (as persisted, *)
(* to the second) it was created with.                                     *)
C7_ResurrectKeepsIdentity ==
    (last.op = "resume" /\ last.status = 200 /\ last.note = "resurrected"
        /\ last.id \in DOMAIN sessions /\ last.id \in DOMAIN created) =>
        LET s == sessions[last.id]
            c == created[last.id]
        IN /\ s.ID = c.ID
           /\ s.Name = c.Name
           /\ s.AgentID = c.AgentID
           /\ s.ProcessPort = c.ProcessPort
           /\ s.ContextID = c.ContextID
           /\ FormatRFC3339(s.CreatedAt) = FormatRFC3339(c.CreatedAt)

(* C8: a session resumed from the durable index still lists the page ids   *)
(* that its successful navigates returned.                                 *)
C8_ResurrectKeepsPages ==
    (last.op = "resume" /\ last.status = 200 /\ last.note = "resurrected"
        /\ last.id \in DOMAIN sessions /\ last.id \in DOMAIN navPages) =>
        navPages[last.id] \subseteq Range(sessions[last.id].PageIDs)

(* C9: a successful resume by (agent, name) returns a session bound to an  *)
(* open protocol client: a closed client is never handed out.              *)
C9_ResumeBindsOpenClient ==
    (last.op = "resume" /\ last.status = 200) => last.client = "open"

(* C10: for one protocol client and one target, however many target-scoped *)
(* calls run concurrently, at most one Target.attachToTarget is sent whose *)
(* call did not fail: later calls reuse the cached label.                  *)
C10_AttachAtMostOnce ==
    \A t \in Targets : attachSent[t] - attachFailed[t] <= 1

----------------------------------------------------------------------------
(* Properties of the protocol client                                       *)

(* the callers inside a send, and the ids of the sends that have returned *)
InFlight == {k \in Callers :
               cpc[k] \in {"attach_write", "attach_wait", "target_write", "target_wait",
                           "panicked"}}
Returned == Range(allocs) \ {cloc[k].id : k \in InFlight}
Waiting == {k \in Callers : cpc[k] \in {"attach_wait", "target_wait"}}

(* C11: whenever a send has returned, with a result or with any error, the *)
(* pending map holds no entry for the id that the send allocated.          *)
C11_NoPendingEntryAfterReturn ==
    pending \cap Returned = {}

(* C12: request ids are allocated strictly increasing and never reused, no *)
(* two sends in progress share an id, and the response a waiting caller    *)
(* finds on its channel is the answer to the frame with its own id.        *)
C12_IdsUniqueAndCorrelated ==
    /\ \A i, j \in DOMAIN allocs : i < j => allocs[i] < allocs[j]
    /\ \A k1, k2 \in InFlight : k1 # k2 => cloc[k1].id # cloc[k2].id
    /\ \A k \in Waiting :
          chans[cloc[k].id].state = "full" => chans[cloc[k].id].id = cloc[k].id

(* two callers wait on sends for different targets and the answer to one   *)
(* of them has been delivered                                              *)
C12_Witness ==
    \E k1, k2 \in Waiting :
        /\ k1 # k2
        /\ cloc[k1].target # cloc[k2].target
        /\ cloc[k1].target \in Targets /\ cloc[k2].target \in Targets
        /\ chans[cloc[k1].id].state = "full"

(* C13: when Close runs while calls await their response, every such call  *)
(* returns the client-closed error: none receives from a response channel  *)
(* that Close closed.                                                      *)
C13_InFlightCallsSeeClientClosed ==
    \A k \in Callers : cpc[k] # "panicked"
----------------------------------------------------------------------------
(* Properties of the port allocator                                        *)

(* C14: port conservation: once every acquired port has been released,    *)
(* the number of free ports equals the initial capacity (50), and no port  *)
(* ever appears twice on the free stack                                    *)
C14_PortConservation ==
    /\ \A i, j \in DOMAIN freePortsStack : i # j => freePortsStack[i] # freePortsStack[j]
    /\ (held = {} /\ acquired > 0) => Len(freePortsStack) = MaxPortRange - MinPortRange

(* C15: graceful shutdown: after the pool's Shutdown has returned, every   *)
(* spawned browser process has exited or been killed, every data directory *)
(* created has been removed, and every acquired port is free again         *)
C15_ShutdownReleasesEverything ==
    poolState = "down" =>
        /\ \A port \in DOMAIN osProcs : osProcs[port] # "running"
        /\ dirs = {}
        /\ held = {}

----------------------------------------------------------------------------
(* Properties of the load balancer and the cleanup worker                  *)

(* no request and no sweep is in progress *)
Quiescent == (\A c \in Callers : pc[c] = "idle") /\ ~sweeping

(* the live sessions bound to a port *)
BoundTo(port) == {id \in DOMAIN sessions : sessions[id].ProcessPort = port}

(* C16: in every quiescent state each worker's session count equals the   *)
(* number of live sessions bound to its port (so it is 0 once every        *)
(* session is destroyed), whether sessions were destroyed by request or by *)
(* the expiry sweeper                                                      *)
C16_CountMatchesLiveSessions ==
    Quiescent =>
        \A i \in DOMAIN processes :
            processes[i].sessionCount = Cardinality(BoundTo(processes[i].DebugPort))

(* the healthy workers of a snapshot *)
Healthy(ps) == {i \in DOMAIN ps : ps[i].healthy}

(* C17: SelectProcess returns a healthy worker whose session count is      *)
(* minimal among the healthy workers of the snapshot, the first of them in *)
(* iteration order on a tie; it never returns an unhealthy worker, and it  *)
(* fails exactly when the snapshot holds no healthy worker                 *)
C17_SelectsLeastLoadedHealthy ==
    LET r == SelectProcess(processes)
        H == Healthy(processes)
    IN /\ (r.err # "") <=> (H = {})
       /\ r.err = "" =>
            /\ r.index \in H
            /\ \A j \in H :
                  /\ processes[r.index].sessionCount <= processes[j].sessionCount
                  /\ processes[j].sessionCount = processes[r.index].sessionCount
                        => r.index <= j

(* C18: every session a sweep found expired is absent from the registry    *)
(* once that sweep is over, before the sweeper's next tick                 *)
C18_ExpiredSessionsAreSwept ==
    ~sweeping => scanned \cap DOMAIN sessions = {}

----------------------------------------------------------------------------
(* Properties of the page operations                                       *)

(* C19: activity monotonicity: whatever the interleaving of operations on  *)
(* a session, no step of an operation makes the session's last-activity    *)
(* smaller than it was                                                     *)
C19_ActivityNeverDecreases ==
    [][\A id \in DOMAIN sessions \cap DOMAIN sessions' :
          sessions'[id].LastActivity >= sessions[id].LastActivity]_vars

(* what a step must look like when it serves a call for session id and     *)
(* page: an unknown session is session-not-found, a page that is not in    *)
(* the session's list is page-not-found, and either way no command is sent *)
(* and no session is touched                                               *)
Rejected(id, page) ==
    /\ id \notin DOMAIN sessions =>
          /\ last'.status = 404 /\ last'.note = "session not found"
          /\ commands' = commands /\ sessions' = sessions
    /\ (id \in DOMAIN sessions /\ ~Contains(sessions[id].PageIDs, page)) =>
          /\ last'.status = 404 /\ last'.note = "page not found"
          /\ commands' = commands /\ sessions' = sessions

(* C20: a page-scoped operation (screenshot, evaluate, content,            *)
(* accessibility tree, close page) called with a page id that is not in    *)
(* the session's page list fails with page-not-found, sends no protocol    *)
(* command and leaves the page list and last-activity as they were; an     *)
(* operation on an unknown session id fails with session-not-found         *)
C20_UnknownPageOrSessionRejected ==
    [][/\ \A id \in 1..MaxIds, page \in PageInputs :
              \/ Rejected(id, page)
              \/ \A c \in Callers, ok \in BOOLEAN :
                    /\ ~ClosePage(c, id, page, ok)
                    /\ \A op \in PageOps : ~PageOperation(c, op, id, page, ok)
       /\ \A c \in Callers, id \in 1..MaxIds :
              \/ id \in DOMAIN sessions
              \/ last'.status = 404 /\ sessions' = sessions
              \/ ~Navigate(c, id, TRUE)]_vars

(* a page operation was refused for a page that its session, which has     *)
(* another page open and has been sent commands, does not list             *)
C20_Witness ==
    /\ last.op \in PageOps \cup {"close_page"}
    /\ last.status = 404
    /\ last.note = "page not found"
    /\ last.id \in DOMAIN sessions
    /\ sessions[last.id].PageIDs # <<>>
    /\ commands > 0

(* C21: once the navigate and closePage calls on a session have returned,  *)
(* the session's page list holds exactly the page ids navigate returned    *)
(* and closePage has not closed, each once.                                *)
C21_PageListIsReturnedMinusClosed ==
    Quiescent =>
        \A id \in DOMAIN sessions :
            LET returned == IF id \in DOMAIN navPages THEN navPages[id] ELSE {}
            IN  /\ Range(sessions[id].PageIDs) = returned \ closed
                /\ Len(sessions[id].PageIDs) = Cardinality(returned \ closed)

(* what a DestroySession(id) step leaves behind: after a success the       *)
(* registry has one session fewer and no entry for id; for an id with no   *)
(* entry the answer is not-found and registry, index and workers are as    *)
(* before                                                                  *)
DestroyPost(id) ==
    IF id \in DOMAIN sessions
    THEN last'.status = 204 =>
            /\ Cardinality(DOMAIN sessions') = Cardinality(DOMAIN sessions) - 1
            /\ id \notin DOMAIN sessions'
    ELSE /\ last'.status = 404
         /\ sessions' = sessions /\ cdpClients' = cdpClients
         /\ redis' = redis /\ processes' = processes

(* C22: a successful destroySession(id) lowers the registry's session      *)
(* count by exactly one and leaves getSession(id) failing with not-found;  *)
(* destroySession of an id already destroyed, or never created, fails with *)
(* not-found and changes nothing.                                          *)
C22_DestroyRemovesExactlyOne ==
    [][\A id \in 1..MaxIds :
          \/ DestroyPost(id)
          \/ \A c \in Callers : ~DestroySession(c, id, TRUE)]_vars

(* a session was destroyed, a second destroy of it was answered not-found, *)
(* and another session is still registered                                 *)
C22_Witness ==
    /\ last.op = "destroy" /\ last.status = 404
    /\ last.id \in destroyed
    /\ last.id \notin DOMAIN sessions
    /\ DOMAIN sessions # {}

(* C23: concurrent CreateSession calls against one worker leave one        *)
(* session in the registry for every call that succeeded (each created one *)
(* browser context), under pairwise distinct ids, each active with an      *)
(* empty page list; and a call whose dial and context creation succeed     *)
(* succeeds.                                                               *)
C23_ConcurrentCreatesAllRegistered ==
    /\ [](/\ Cardinality(DOMAIN sessions) = nextCtx - 1
          /\ \A id \in DOMAIN sessions :
                /\ sessions[id].ID = id
                /\ sessions[id].Status = "active"
                /\ sessions[id].PageIDs = <<>>
          /\ \A id1 \in DOMAIN sessions, id2 \in DOMAIN sessions :
                id1 # id2 => sessions[id1].ContextID # sessions[id2].ContextID)
    /\ [][\A c \in Callers :
             ManagerCreateSession(c, TRUE, TRUE) =>
                /\ last'.status = 201
                /\ last'.id \in DOMAIN sessions' \ DOMAIN sessions
                /\ Cardinality(DOMAIN sessions') = Cardinality(DOMAIN sessions) + 1]_vars

(* two calls were pending on the lock at once and both have returned with  *)
(* their sessions                                                          *)
C23_Witness ==
    /\ Cardinality(DOMAIN sessions) >= 2
    /\ \A c \in Callers : pc[c] = "idle"
    /\ \E id1 \in DOMAIN sessions, id2 \in DOMAIN sessions :
          id1 # id2 /\ sessions[id1].CreatedAt = sessions[id2].CreatedAt

(* C24: the registry holds one protocol client per worker port, and every  *)
(* session in the registry, created or resurrected, holds the client the   *)
(* registry has for its port; so sessions on the same port share a client. *)
C24_OneClientPerPort ==
    /\ \A id \in DOMAIN sessions :
          /\ sessions[id].ProcessPort \in DOMAIN cdpClients
          /\ sessions[id].CDPClient = cdpClients[sessions[id].ProcessPort]
    /\ \A p1 \in DOMAIN cdpClients, p2 \in DOMAIN cdpClients :
          p1 # p2 => cdpClients[p1] # cdpClients[p2]

(* a session resurrected onto a port where another session was created *)
C24_Witness ==
    /\ last.op = "resume" /\ last.note = "resurrected"
    /\ \E id \in DOMAIN sessions :
          /\ id # last.id
          /\ sessions[id].ProcessPort = sessions[last.id].ProcessPort
          /\ sessions[id].CDPClient = sessions[last.id].CDPClient

(* C25: a session saved to the durable index and used by an operation less *)
(* than the TTL ago still has its entry in the durable index.              *)
C25_UsedSessionStaysInIndex ==
    \A id \in DOMAIN sessions :
        (repo /\ now - sessions[id].LastActivity < SessionTTL)
            => id \in DOMAIN redis.session

(* C26: a step in which a create is turned down for a name conflict or for *)
(* the agent's quota creates no protocol client, sends no                  *)
(* Target.createBrowserContext and leaves the registry's maps as they were. *)
C26_RejectedCreateDoesNoBrowserWork ==
    [][(/\ last'.op = "create"
        /\ last'.note \in {"agent limit", "name conflict"}
        /\ (last' # last \/ pc' # pc))
          => UNCHANGED <<sessions, cdpClients, clientState, nextCtx>>]_vars

(* the agent's quota is used up, a session holds the name, and a create    *)
(* was turned down for the quota                                           *)
C26_Witness ==
    /\ last.op = "create" /\ last.note = "agent limit"
    /\ Cardinality(DOMAIN sessions) >= MaxSessionsPerAgent
    /\ \E id \in DOMAIN sessions : sessions[id].Name \in Names

(* C27: in every reachable state of the port allocator the ports flagged   *)
(* free are exactly the ports on the free stack; and a ReturnPort of a     *)
(* port outside [MinPortRange, MaxPortRange) or of a port that is free     *)
(* already leaves both the stack and the set as they were.                 *)
C27_SetIsStack ==
    /\ [](freePortsSet = Range(freePortsStack))
    /\ [][\A port \in {Itoa(MinPortRange - 1), Itoa(MaxPortRange)} \cup freePortsSet :
             ReturnPort(port) => UNCHANGED <<freePortsStack, freePortsSet>>]_vars

(* ports were taken, one of them found busy and dropped, and the others    *)
(* returned: the port returned last is on top of the stack and flagged     *)
C27_Witness ==
    /\ acquired > 1
    /\ held = {}
    /\ Len(freePortsStack) < MaxPortRange - MinPortRange
    /\ Len(freePortsStack) > 0
    /\ freePortsStack[Len(freePortsStack)] \in freePortsSet

----------------------------------------------------------------------------
(* Properties of one worker                                                *)

(* C28: a worker whose spawn failed has status failed, its port is back in *)
(* the allocator and its data directory is removed.                        *)
C28_FailedWorkerHoldsNothing ==
    \A i \in DOMAIN processes :
        processes[i].Cmd = "unstarted" =>
            /\ processes[i].Status = "failed"
            /\ Itoa(processes[i].DebugPort) \in freePortsSet
            /\ Itoa(processes[i].DebugPort) \notin held
            /\ processes[i].UserDataDir \notin dirs

(* C29: once a Stop of a started worker has returned, whichever way it     *)
(* went, the worker's port is back in the allocator.                       *)
C29_StopAlwaysReturnsPort ==
    \A i \in DOMAIN processes :
        (processes[i].Cmd = "started" /\ processes[i].stops > 0) =>
            /\ Itoa(processes[i].DebugPort) \in freePortsSet
            /\ Itoa(processes[i].DebugPort) \notin held

(* C30: a Stop on a worker whose earlier Stop ran to completion succeeds,  *)
(* sends no signal to the process and leaves the allocator as it is (the   *)
(* port was returned once, by the first Stop).                             *)
C30_SecondStopIsNoOp ==
    [][\A i \in DOMAIN processes :
          (processes[i].Status = "stopped" /\ processes'[i].stops > processes[i].stops)
             => /\ processes'[i].lastStop = "ok"
                /\ processes'[i].signals = processes[i].signals
                /\ UNCHANGED <<freePortsStack, freePortsSet>>]_vars

(* C31: a first Stop of a started worker whose browser exits on the        *)
(* termination signal, with the terminated status or with any other exit   *)
(* status, reports no failure: the worker has status stopped, its data     *)
(* directory is removed and its port is back in the allocator.             *)
C31_ExitStatusIsOnlyAWarning ==
    [][\A i \in DOMAIN processes, outcome \in {"graceful", "exit_error"} :
          (/\ processes[i].Cmd = "started"
           /\ ~processes[i].waited
           /\ ProcessStop(i, outcome))
             => /\ processes'[i].lastStop = "ok"
                /\ processes'[i].Status = "stopped"
                /\ processes[i].UserDataDir \notin dirs'
                /\ Itoa(processes[i].DebugPort) \in freePortsSet']_vars

----------------------------------------------------------------------------
(* Properties of the sweep, the registry's close and destruction           *)

(* the sweep's destroy phase is at a session that was touched after the    *)
(* scan collected it: the scan saw its last activity in the past, now it   *)
(* is the present                                                          *)
TouchedSinceScan ==
    /\ sweeping
    /\ Head(expiredIDs) \in DOMAIN sessions
    /\ sessions[Head(expiredIDs)].LastActivity = now

----------------------------------------------------------------------------
(* C33: after Close has cancelled the worker's context the worker starts   *)
(* no further scan: no step taken while the context is cancelled is the    *)
(* first phase of cleanupExpiredSessions.                                  *)
C33_NoScanAfterCancel ==
    [][~(cancelled /\ \E timeout \in 0..MaxTime : cleanupExpiredSessions(timeout))]_vars

(* the rest of C33, under FairStop: once cancelled the worker exits in the *)
(* end, and Close returns in the end whatever the worker is doing          *)
WorkerEventuallyExits == cancelled ~> exited

CloseTerminates == cancelled ~> closeReturned

----------------------------------------------------------------------------
(* C34: a DestroySession of a resident session whose DisposeBrowserContext *)
(* fails answers with the error and leaves the registry and the durable    *)
(* index as they were, the session still active; one whose dispose         *)
(* succeeds removes the session and reports success whatever the           *)
(* CloseTarget calls returned.                                             *)
C34_OnlyDisposeFailureKeepsSession ==
    [][\A c \in LifeCallers, id \in 1..MaxIds, ok \in BOOLEAN :
          (id \in DOMAIN sessions /\ DestroySession(c, id, ok))
             => IF CommandFails(sessions[id].CDPClient, ok)
                THEN /\ last'.status = 500
                     /\ sessions' = sessions
                     /\ sessions'[id].Status = "active"
                     /\ redis' = redis
                     /\ closeErrs' = closeErrs
                ELSE /\ last'.status = 204
                     /\ id \notin DOMAIN sessions'
                     /\ id \in destroyed']_vars

(* one session was destroyed although a CloseTarget failed, and the last   *)
(* request was a destroy that failed at the dispose and left its session   *)
(* resident and in the durable index                                       *)
C34_Witness ==
    /\ \E id \in closeErrs : id \in destroyed /\ id \notin DOMAIN sessions
    /\ last.op = "destroy"
    /\ last.status = 500
    /\ last.id \in DOMAIN sessions
    /\ last.id \in DOMAIN redis.session

----------------------------------------------------------------------------
(* a resume by (agent, name) finds the id and loads its state *)
Resumable(r, id, agentID, sessionName) ==
    /\ GetSessionByName(r, agentID, sessionName) = [id |-> id, err |-> NoError]
    /\ GetSession(r, id).err = NoError

(* C35: Manager.Close closes every client of the map and empties both      *)
(* maps, destroys and closes nothing and leaves the durable index as it    *)
(* was, so every resident session keeps the entry and the name reservation *)
(* it had; and after a Close a resume by (agent, name) of a session that   *)
(* has both, the worker being reachable, brings that session back.         *)
C35_CloseAbandonsWithoutDestroying ==
    /\ [][ManagerClose =>
            /\ sessions' = EmptyMap
            /\ cdpClients' = EmptyMap
            /\ \A k \in Range(cdpClients) : clientState'[k] = "closed"
            /\ destroyed' = destroyed
            /\ closed' = closed
            /\ redis' = redis
            /\ expireAt' = expireAt
            /\ \A id \in DOMAIN sessions :
                  Resumable(redis, id, sessions[id].AgentID, sessions[id].Name)
                     => Resumable(redis', id, sessions[id].AgentID, sessions[id].Name)]_vars
    /\ [][\A c \in LifeCallers :
            (/\ closeReturned
             /\ pc[c] = "resume_load"
             /\ Resumable(redis, loc[c].id, loc[c].agent, loc[c].name)
             /\ ResumeResurrect(c, TRUE))
               => /\ last'.status = 200
                  /\ last'.id = loc[c].id
                  /\ loc[c].id \in DOMAIN sessions']_vars

(* a session created before a Close is resident again, resurrected from    *)
(* the durable index by the last request                                   *)
C35_Witness ==
    /\ closeReturned
    /\ last.op = "resume"
    /\ last.status = 200
    /\ last.note = "resurrected"
    /\ last.id \in DOMAIN created
    /\ last.id \in DOMAIN sessions

----------------------------------------------------------------------------
(* C36: no DestroySession step changes the port-to-client map or the state *)
(* of a client; a step that closes a client or takes a port out of the map *)
(* is Manager.Close; and the client of every resident session is open, so  *)
(* the sessions left on a worker go on using it.                           *)
C36_DestroyLeavesClients ==
    /\ [](\A id \in DOMAIN sessions : clientState[sessions[id].CDPClient] = "open")
    /\ [][\A c \in Callers, id \in 1..MaxIds, ok \in BOOLEAN :
            DestroySession(c, id, ok)
               => cdpClients' = cdpClients /\ clientState' = clientState]_vars
    /\ [][((\E k \in DOMAIN clientState :
                (clientState[k] = "open") /\ (clientState'[k] = "closed"))
            \/ (\E port \in DOMAIN cdpClients : port \notin DOMAIN cdpClients'))
              => ManagerClose]_vars

(* a session navigates on the open client that a destroyed session of the  *)
(* same worker was bound to                                                *)
C36_Witness ==
    /\ last.op = "navigate"
    /\ last.status = 200
    /\ last.id \in DOMAIN sessions
    /\ \E d \in destroyed :
          /\ created[d].CDPClient = sessions[last.id].CDPClient
          /\ cdpClients[created[d].ProcessPort] = created[d].CDPClient
          /\ clientState[created[d].CDPClient] = "open"

----------------------------------------------------------------------------
(* C37: an AttachToTarget that took the client's mutex for a target with   *)
(* no cached label returns in the end and gives the mutex back.            *)
C37_AttachToTargetReturns ==
    \A k \in Callers : (cmu = k) ~> (cmu # k)

(* a caller inside AttachToTarget is never waiting in SendCommand for the  *)
(* mutex it holds itself                                                   *)
AttachNeverWaitsOnItself ==
    \A k \in Callers : ~(cmu = k /\ cpc[k] = "attach_register")

----------------------------------------------------------------------------
(* C38: every id in an agent's session set has a session hash, and the     *)
(* count checkSessionLimits reads for the agent is the number of session   *)
(* hashes of that agent in the durable index.                              *)
C38_AgentSetHasOnlyLiveSessions ==
    \A a \in Agents :
        /\ \A id \in redis.agentSessions[a] : id \in DOMAIN redis.session
        /\ CountAgentSessions(redis, a) =
              Cardinality({id \in DOMAIN redis.session :
                              HGet(redis.session[id], "agent_id") = a})

----------------------------------------------------------------------------
(* C39: resurrection never replaces a record that is already resident: a   *)
(* resurrect of an id the registry holds leaves the registry's record, its *)
(* page ids and its activity stamp as they are.                            *)
C39_ResurrectKeepsResidentRecord ==
    [][\A c \in Callers :
          (/\ pc[c] = "resume_load"
           /\ loc[c].id \in DOMAIN sessions
           /\ ResumeResurrect(c, TRUE))
             => sessions'[loc[c].id] = sessions[loc[c].id]]_vars


----------------------------------------------------------------------------
(* C40: a rename that fails leaves the names that were reserved to the     *)
(* session when it began reserved to it, and the in-memory name the old    *)
(* one; a rename that succeeds leaves exactly the new name reserved to the *)
(* session.                                                                *)
C40_RenameIsAllOrNothing ==
    [][\A c \in Callers, fail \in {"none", "reserve"} :
          (pc[c] = "rename_reserve" /\ RenameReserve(c, fail))
             => IF last'.status = 200
                THEN ReservedTo(redis', loc[c].agent, loc[c].id) = {loc[c].name}
                ELSE /\ loc[c].id \in DOMAIN sessions'
                        => sessions'[loc[c].id].Name = loc[c].old
                     /\ loc[c].had \subseteq
                           ReservedTo(redis', loc[c].agent, loc[c].id)]_vars

====
